---- MODULE Spec2Model ----
(***************************************************************************)
(* Mewo: the statement executor (src/source/exec.c) over the stores of     *)
(* src/source/vars.c and the error slot of src/source/error.c.             *)
(*                                                                         *)
(* The executor is recursive in the source (exec_range -> exec_stmt ->     *)
(* exec_label -> exec_top_level_except_calls_and_gotos -> exec_range).     *)
(* The model keeps the C call stack as the sequence `stack' of walker      *)
(* frames; a walker that calls a sub-walker first stores the index it      *)
(* resumes at, which is what the C code does after the callee returns      *)
(* true (a callee that returns false unwinds every caller).                *)
(*                                                                         *)
(* Text is abstracted: a template is a sequence of parts (literal text,    *)
(* ${var}, $?, ${#exec("..")}), and an interpolated text is the sequence   *)
(* of the strings the parts expand to.                                     *)
(***************************************************************************)
EXTENDS Integers, Sequences, FiniteSets, TLC

\* ---------------------------------------------------------------- bounds
\* deepest nesting of walker frames the model follows
MaxDepth == 6
\* most child processes one run may start
MaxSpawn == 10
\* most lines of a Mewofile handed to parse
MaxLines == 2
\* cells of the memory the store's Variable objects are allocated in
MaxObj == 10

\* a NULL char* (label argument, shell slot, attribute field)
NULL == "<null>"

\* ------------------------------------------------------------ statements
\* Stmt (parser.c): type, indent_level, line_number and the variant's
\* fields: name (attr / variable / label / target / raw condition),
\* params (attr parameters), tpl (raw command line or
\* raw assignment value, as a template).
Stmt(type, indent, line, name, params, tpl) ==
    [type |-> type, indent_level |-> indent, line_number |-> line,
     name |-> name, params |-> params, tpl |-> tpl]

Lit(s)  == [k |-> "lit",  s |-> s]     \* literal text
QLit(s) == [k |-> "qlit", s |-> s]     \* "s" : a quoted literal
Var(s)  == [k |-> "var",  s |-> s]     \* ${s}
Exit    == [k |-> "exit", s |-> ""]    \* $?
Exec(s) == [k |-> "exec", s |-> s]     \* ${#exec("..")} of a command printing s
Arg(s)  == [k |-> "arg",  s |-> s]     \* $s, s a run of digits
ArgB(s) == [k |-> "argb", s |-> s]     \* ${s}, s a run of digits

\* an attribute statement as the parser leaves it: line_number is never
\* set and stays 0 (parser.c:464-470; parse_attr allocates with calloc);
\* ln tells the reader which line of the script the attribute is on
AttrS(ind, ln, name, params) == Stmt("ATTR", ind, 0, name, params, <<>>)
AssignS(ind, ln, name, tpl)  == Stmt("VAR_ASSIGN", ind, ln, name, <<>>, tpl)
LabelS(ln, name)             == Stmt("LABEL", 0, ln, name, <<>>, <<>>)
CmdS(ind, ln, tpl)           == Stmt("COMMAND", ind, ln, "", <<>>, tpl)
IfS(ind, ln, cond)           == Stmt("IF", ind, ln, cond, <<>>, <<>>)
ElseS(ind, ln)               == Stmt("ELSE", ind, ln, "", <<>>, <<>>)
EndifS(ind, ln)              == Stmt("ENDIF", ind, ln, "", <<>>, <<>>)
GotoS(ind, ln, target)       == Stmt("GOTO", ind, ln, target, <<>>, <<>>)
CallS(ind, ln, target)       == Stmt("CALL", ind, ln, target, <<>>, <<>>)

\* ---------------------------------------------------------------- scripts
\* top-level goto over a label block, and a goto inside a label body
ProgGoto == <<
    AssignS(0, 1, "x", <<QLit("1")>>),
    GotoS(0, 2, "B"),
    CmdS(0, 3, <<Lit("echo skipped")>>),
    LabelS(4, "A"),
    CmdS(1, 5, <<Lit("echo a")>>),
    GotoS(1, 6, "B"),
    CmdS(1, 7, <<Lit("echo a2")>>),
    LabelS(8, "B"),
    CmdS(1, 9, <<Lit("echo b "), Var("x")>>),
    CmdS(0, 10, <<Lit("echo tail")>>) >>

\* call from the top level; the top level holds an #if with a goto
ProgCall == <<
    CallS(0, 1, "A"),
    CmdS(0, 2, <<Lit("echo after")>>),
    IfS(0, 3, "#feature(f)"),
    GotoS(1, 4, "B"),
    EndifS(0, 5),
    LabelS(6, "A"),
    CmdS(1, 7, <<Lit("echo a")>>),
    CmdS(1, 8, <<Lit("B")>>),
    LabelS(9, "B"),
    CmdS(1, 10, <<Lit("echo b")>>) >>

\* assignments in a label body before it calls another label
ProgVars == <<
    AssignS(0, 1, "x", <<QLit("1")>>),
    LabelS(2, "A"),
    AssignS(1, 3, "x", <<QLit("2")>>),
    AssignS(1, 4, "y", <<Lit("x")>>),
    CmdS(1, 5, <<Lit("echo "), Var("x"), Var("y")>>),
    CallS(1, 6, "B"),
    AssignS(1, 7, "z", <<Lit("nosuch")>>),
    LabelS(8, "B"),
    CmdS(1, 9, <<Lit("echo "), Var("x"), Var("y")>>) >>

\* command attributes: #ignorefail, #expect, $?, #shell
ProgAttrs == <<
    AttrS(0, 1, "ignorefail", <<>>),
    CmdS(0, 1, <<Lit("false")>>),
    CmdS(0, 2, <<Lit("echo "), Exit>>),
    AttrS(0, 3, "expect", <<"3">>),
    AttrS(0, 3, "ignorefail", <<>>),
    AttrS(0, 3, "shell", <<"default">>),
    CmdS(0, 3, <<Lit("exit 3")>>),
    AttrS(0, 4, "ignorefail", <<>>),
    AttrS(0, 4, "shell", <<"sh", "global">>),
    CmdS(0, 4, <<Lit("false")>>),
    AttrS(0, 5, "expect", <<"3">>),
    CmdS(0, 5, <<Lit("exit 3")>>) >>

\* #cwd and #save, with and without a shell
ProgCwd == <<
    AttrS(0, 1, "cwd", <<"/tmp">>),
    AttrS(0, 1, "save", <<"stdout", "out">>),
    AttrS(0, 1, "ignorefail", <<>>),
    CmdS(0, 1, <<Lit("pwd")>>),
    AttrS(0, 2, "cwd", <<"/nope">>),
    AttrS(0, 2, "shell", <<"sh">>),
    AttrS(0, 2, "save", <<"stderr", "err">>),
    AttrS(0, 2, "expect", <<"1">>),
    CmdS(0, 2, <<Lit("pwd")>>),
    AttrS(0, 3, "cwd", <<"/tmp">>),
    CmdS(0, 3, <<Lit("echo "), Var("err")>>),
    CmdS(0, 4, <<Lit("echo "), Var("out")>>) >>

\* #once in a label that is invoked twice, and at the top level
ProgOnce == <<
    AttrS(0, 1, "once", <<>>),
    AttrS(0, 1, "ignorefail", <<>>),
    CmdS(0, 1, <<Lit("echo setup")>>),
    LabelS(2, "A"),
    AttrS(1, 3, "once", <<>>),
    AttrS(1, 3, "ignorefail", <<>>),
    CmdS(1, 3, <<Lit("echo once")>>),
    CallS(0, 4, "A"),
    CallS(0, 5, "A") >>

\* a call of a label defined further down, whose body calls and jumps to a
\* label defined further up
ProgOrder == <<
    CallS(0, 1, "A"),
    LabelS(2, "B"),
    CmdS(1, 3, <<Lit("echo b")>>),
    LabelS(4, "A"),
    CallS(1, 5, "B"),
    GotoS(1, 6, "B"),
    CmdS(1, 7, <<Lit("echo a")>>) >>

\* an attribute in front of an #if, and a conditional attribute that ends
\* a label body
ProgPend == <<
    AttrS(0, 1, "ignorefail", <<>>),
    IfS(0, 2, "#feature(f)"),
    CmdS(1, 3, <<Lit("echo in")>>),
    EndifS(0, 4),
    CmdS(0, 5, <<Lit("echo after")>>),
    LabelS(6, "A"),
    CmdS(1, 7, <<Lit("echo a")>>),
    AttrS(1, 8, "feature", <<"g">>),
    CallS(0, 9, "A"),
    CmdS(0, 10, <<Lit("echo gated")>>) >>

\* a goto and a call behind a false conditional attribute, in a label body
\* and at the top level
ProgSkip == <<
    LabelS(1, "A"),
    AttrS(1, 2, "feature", <<"g">>),
    CallS(1, 2, "B"),
    AttrS(1, 3, "feature", <<"g">>),
    GotoS(1, 3, "B"),
    CmdS(1, 4, <<Lit("echo rest")>>),
    LabelS(5, "B"),
    CmdS(1, 6, <<Lit("echo b")>>),
    AttrS(0, 7, "feature", <<"g">>),
    GotoS(0, 7, "B"),
    CallS(0, 8, "A") >>

\* a command under #timeout, then a plain one
ProgTimeout == <<
    AttrS(0, 1, "timeout", <<"3">>),
    CmdS(0, 1, <<Lit("cat")>>),
    CmdS(0, 2, <<Lit("echo after")>>) >>

\* ${#exec(..)} in a command, an assignment and behind a false guard
ProgExec == <<
    AssignS(0, 1, "hi", <<QLit("there")>>),
    AssignS(0, 2, "v", <<Exec("hi")>>),
    AttrS(0, 3, "feature", <<"g">>),
    CmdS(0, 3, <<Lit("echo guarded")>>),
    AttrS(0, 4, "features", <<"g">>),
    LabelS(5, ""),
    CmdS(1, 6, <<Lit("echo "), Exec("now"), Var("v")>>),
    IfS(0, 7, "#defined(v)"),
    CmdS(1, 8, <<Lit("echo yes")>>),
    ElseS(0, 9),
    CmdS(1, 10, <<Lit("echo no")>>),
    EndifS(0, 11),
    AttrS(0, 12, "assert", <<"#feature(g)">>),
    LabelS(13, "A"),
    CmdS(1, 14, <<Lit("echo a")>>) >>

\* a feature turned on by the script, then a command and a label behind it
ProgFeat == <<
    AttrS(0, 1, "features", <<"g">>),
    AttrS(0, 2, "feature", <<"g">>),
    CmdS(0, 2, <<Lit("echo on")>>),
    AttrS(0, 3, "feature", <<"g">>),
    LabelS(3, "A"),
    CmdS(1, 4, <<Lit("echo a")>>),
    CallS(0, 5, "A") >>

\* a top-level command whose text is a label name, behind a top-level goto
ProgImplicit == <<
    GotoS(0, 1, "B"),
    LabelS(2, "B"),
    CmdS(1, 3, <<Lit("echo b")>>),
    CmdS(0, 4, <<Lit("B")>>),
    LabelS(5, "A"),
    CallS(1, 6, "B") >>

\* an array, then the statement the parser makes of the line `a[0] = 5`
ProgIndex == <<
    AssignS(0, 1, "a", <<Lit("[1, 2]")>>),
    CmdS(0, 2, <<Lit("a[0] = 5")>>),
    CmdS(0, 3, <<Lit("echo "), Exit>>) >>

\* a top-level #if holding a label, two #else and a stray #endif
ProgIf == <<
    IfS(0, 1, "#feature(f)"),
    LabelS(2, "C"),
    CmdS(1, 3, <<Lit("echo c")>>),
    ElseS(0, 4),
    CmdS(0, 5, <<Lit("echo e1")>>),
    ElseS(0, 6),
    CmdS(0, 7, <<Lit("echo e2")>>),
    EndifS(0, 8),
    EndifS(0, 9) >>

\* the forms of #shell, one command each, with plain commands between
ProgShell == <<
    AttrS(0, 1, "shell", <<"bash">>),
    CmdS(0, 1, <<Lit("echo a")>>),
    CmdS(0, 2, <<Lit("echo b")>>),
    AttrS(0, 3, "shell", <<"sh", "global">>),
    CmdS(0, 3, <<Lit("echo c")>>),
    CmdS(0, 4, <<Lit("echo d")>>),
    AttrS(0, 5, "shell", <<"bash">>),
    CmdS(0, 5, <<Lit("echo e")>>),
    AttrS(0, 6, "shell", <<"default">>),
    CmdS(0, 6, <<Lit("echo f")>>),
    CmdS(0, 7, <<Lit("echo g")>>),
    AttrS(0, 8, "shell", <<"default", "global">>),
    CmdS(0, 8, <<Lit("echo h")>>),
    CmdS(0, 9, <<Lit("echo i")>>) >>

\* labels behind platform guards: A twice, B only behind a false one
ProgGuard == <<
    AttrS(0, 1, "windows", <<>>),
    LabelS(2, "A"),
    CmdS(1, 3, <<Lit("echo win")>>),
    AttrS(0, 4, "linux", <<>>),
    LabelS(5, "A"),
    CmdS(1, 6, <<Lit("echo lin")>>),
    AttrS(0, 7, "windows", <<>>),
    LabelS(8, "B"),
    CmdS(1, 9, <<Lit("echo only")>>),
    CallS(0, 10, "A"),
    IfS(0, 11, "#feature(f)"),
    GotoS(0, 12, "B"),
    EndifS(0, 13),
    CallS(0, 14, "B") >>

\* two labels of one name, both registered
ProgDup == <<
    AssignS(0, 1, "x", <<QLit("1")>>),
    CmdS(0, 2, <<Lit("echo top")>>),
    LabelS(3, "A"),
    CmdS(1, 4, <<Lit("echo a")>>),
    LabelS(5, "A"),
    CmdS(1, 6, <<Lit("echo b")>>) >>

\* positional arguments
ProgArgs == <<
    CmdS(0, 1, <<Lit("echo "), Arg("0"), Lit(" "), Arg("1"), Lit(" "), ArgB("1"),
                 Lit(" "), ArgB("2"), Lit(" "), Arg("3")>>) >>

Programs == <<ProgGoto, ProgCall, ProgVars, ProgAttrs, ProgCwd, ProgOnce, ProgExec,
              ProgIf, ProgShell, ProgGuard, ProgDup, ProgArgs,
              ProgTimeout, ProgOrder, ProgPend,
              ProgSkip, ProgFeat, ProgImplicit, ProgIndex>>

\* the arguments after `--` on the command line (main.c:203-216)
ArgLists == {<<>>, <<"one">>, <<"one", "two">>}
ProgramName == "mewo"

\* label arguments tried on the command line (NULL: run the top level)
LabelArgs == {NULL, "A", "B", "nolabel"}

\* ---------------------------------------------------------- environment
\* what a child process can do: exit with a code, or die on a signal
Children == { [exited |-> TRUE,  code |-> 0], [exited |-> TRUE,  code |-> 1],
              [exited |-> TRUE,  code |-> 3], [exited |-> FALSE, code |-> 9] }
\* what a child writes to the captured stream
Outputs == {"hi"}
\* directories that exist
Dirs == {"/home/u", "/tmp"}
\* the build's platform (exec.c:176-206 are compile-time)
Platform == "linux"
\* get_arch() and get_distro() of the build and host (exec.c:208-252)
Arch == "x86_64"
Distro == "ubuntu"
\* the process environment read by getenv
Environ == [HOME |-> "/home/u"]

\* ------------------------------------------------------------------ state
VARIABLES
    lines,                \* the Mewofile's lines, as main hands them to parse
    line_i,               \* parse's loop index i
    ast,                  \* ctx->ast : the parsed statement sequence
    label_arg,            \* execute()'s label argument (NULL: top level)
    dry_run,              \* ctx->dry_run
    default_shell,        \* ctx->default_shell (CLI --shell)
    cli_enable,           \* +F names, in order
    cli_disable,          \* -F names, in order
    args,                 \* g_argv : what main hands to argv_init
    status,               \* "parse", "parsed", "init", "run", then the result "ok" / "fail"
    labels,               \* ctx->labels : sequence of [name, index]
    stack,                \* the walkers on the C stack, innermost last
    current_index,        \* ctx->current_index (1-based here)
    current_label_index,  \* ctx->current_label_index (0 here is -1 there)
    pending_attrs,        \* ctx->pending_attrs : statement indices
    vars,                 \* g_variables : sequence of [key, value]
    features,             \* g_features : sequence of names
    last_exit_code,       \* g_last_exit_code
    global_shell,         \* g_global_shell
    error,                \* g_error
    cwd,                  \* the process working directory
    nchildren,            \* history: child processes started (spawn, system, popen)
    spawned,              \* history: per statement, how often it was spawned
    last_cmd,             \* history: the last exec_command call
    last_goto,            \* history: the last executed goto and what ran next
    last_ret,             \* history: the last exec_label return
    last_write,           \* history: the value last written to each variable
    heap,                 \* the Variable objects of the store (vars.c), by address
    last_op               \* history: the last operation on the store and its result

vars_all == <<lines, line_i, ast, label_arg, dry_run, default_shell, cli_enable, cli_disable,
              args, status, labels, stack, current_index, current_label_index,
              pending_attrs, vars, features, last_exit_code, global_shell,
              error, cwd, nchildren, spawned, last_cmd, last_goto,
              last_ret, last_write, heap, last_op>>

\* what no step of the executor writes: the command line and the script,
\* and the object view of the store, which only the store's own
\* operations move
inputs == <<lines, line_i, ast, label_arg, dry_run, default_shell, cli_enable,
            cli_disable, args, heap, last_op>>

\* ------------------------------------------------------------ error slot
NoError == [type |-> "NONE", message |-> "", line_number |-> 0]
\* set_error (error.c:40-45): the slot is overwritten
set_error(type, message, line) ==
    [type |-> type, message |-> message, line_number |-> line]
\* has_error (error.c:47-49)
has_error == error.type # "NONE"

\* ------------------------------------------------------- variable store
StrV(s)  == [t |-> "str",  v |-> s]
NumV(s)  == [t |-> "num",  v |-> s]
BoolV(s) == [t |-> "bool", v |-> s]
ArrV(items) == [t |-> "arr", v |-> items]

\* the memory the Variable objects live in: MaxObj cells, each free or
\* holding one Variable (vars.c:262-298): its type, its scalar text and,
\* for an Array, the addresses of its items
Addrs == 1..MaxObj
Cell(t, s, items) == [t |-> t, s |-> s, items |-> items]
FreeCell == Cell("free", "", <<>>)
EmptyHeap == [p \in Addrs |-> FreeCell]
NoOp == [op |-> "none", name |-> "", text |-> "", ok |-> TRUE]

\* vars_find_index (vars.c:195-202): first position of the key, 0 if none
vars_find_index(vs, name) ==
    IF \E i \in 1..Len(vs) : vs[i].key = name
    THEN CHOOSE i \in 1..Len(vs) :
            vs[i].key = name /\ \A j \in 1..(i-1) : vs[j].key # name
    ELSE 0
\* vars_exists (vars.c:210-212)
vars_exists(vs, name) == vars_find_index(vs, name) > 0
\* vars_get (vars.c:204-208); only used where the key exists
vars_get(vs, name) == vs[vars_find_index(vs, name)].value
\* a store that keeps the first value of a key
vars_set_keep(vs, name, value) ==
    IF \E i \in 1..Len(vs) : vs[i].key = name THEN vs
    ELSE Append(vs, [key |-> name, value |-> value])
\* vars_set (vars.c:214-245): replace in place, else append
vars_set(vs, name, value) ==
    LET idx == vars_find_index(vs, name) IN
    IF idx > 0 THEN [vs EXCEPT ![idx].value = value]
    ELSE Append(vs, [key |-> name, value |-> value])
\* var_to_string (vars.c:444-489) on scalars
var_to_string(val) == val.v

\* --------------------------------------------------------- feature store
\* feature_exists (vars.c:119-126)
feature_exists(fs, name) == \E i \in 1..Len(fs) : fs[i] = name
\* feature_enable (vars.c:128-143)
feature_enable(fs, name) == IF feature_exists(fs, name) THEN fs ELSE Append(fs, name)
\* a disable that removes nothing
feature_disable_not(fs, name) == fs
\* feature_disable (vars.c:145-157): the first occurrence is removed
feature_disable(fs, name) ==
    IF ~feature_exists(fs, name) THEN fs
    ELSE LET i == CHOOSE k \in 1..Len(fs) :
                      fs[k] = name /\ \A j \in 1..(k-1) : fs[j] # name
         IN  SubSeq(fs, 1, i-1) \o SubSeq(fs, i+1, Len(fs))

RECURSIVE EnableAll(_, _)
EnableAll(fs, names) ==
    IF names = <<>> THEN fs
    ELSE EnableAll(feature_enable(fs, Head(names)), Tail(names))
RECURSIVE DisableAll(_, _)
DisableAll(fs, names) ==
    IF names = <<>> THEN fs
    ELSE DisableAll(feature_disable(fs, Head(names)), Tail(names))

\* ---------------------------------------------------------- interpolator
\* decimal text of the exit codes that occur (snprintf "%d", vars.c:622)
Dec(n) == CASE n = 0 -> "0" [] n = 1 -> "1" [] n = 3 -> "3"
            [] n = -1 -> "-1" [] OTHER -> "?"
\* atoi on the attribute parameters that occur (exec.c:401)
Atoi(s) == CASE s = "1" -> 1 [] s = "3" -> 3 [] OTHER -> 0

Piece(q, s) == [q |-> q, s |-> s]

\* the digits of $N and ${N} that occur (vars.c:602-606, 664)
ArgNo(s) == CASE s = "0" -> 0 [] s = "1" -> 1 [] s = "2" -> 2 [] s = "3" -> 3
              [] OTHER -> 0
\* argv_get (vars.c:90-93), NULL beyond the last
argv_get(index) == IF index >= Len(args) THEN NULL ELSE args[index + 1]

\* interp_internal (vars.c:540-1101) over a template: the expansion of one
\* part, whether it fails, and whether it starts a child (popen, :927-930).
\* Neither the dry-run flag nor any store is written.
PartOk(part, vs) == part.k = "var" => vars_exists(vs, part.s)
PartText(part, vs, lec) ==
    CASE part.k = "lit"  -> Piece(FALSE, part.s)
      [] part.k = "qlit" -> Piece(TRUE, part.s)
      [] part.k = "var"  -> Piece(FALSE, var_to_string(vars_get(vs, part.s)))
      [] part.k = "exit" -> Piece(FALSE, Dec(lec))
      [] part.k = "exec" -> Piece(FALSE, part.s)
      [] part.k \in {"arg", "argb"} ->
            LET arg == argv_get(ArgNo(part.s))
            IN  Piece(FALSE, IF arg = NULL THEN "" ELSE arg)
\* the parts expanded before the scan stops: all of them, or those before
\* the first undefined variable
InterpReach(tpl, vs) ==
    IF \A i \in 1..Len(tpl) : PartOk(tpl[i], vs) THEN Len(tpl)
    ELSE CHOOSE n \in 0..Len(tpl) :
            /\ ~PartOk(tpl[n+1], vs)
            /\ \A j \in 1..n : PartOk(tpl[j], vs)
\* an interpolation that never fails: what it has expanded is its result
interpolate_partial(tpl, vs, lec) ==
    LET n == InterpReach(tpl, vs)
    IN  [ok    |-> TRUE,
         out   |-> [i \in 1..n |-> PartText(tpl[i], vs, lec)],
         execs |-> Cardinality({i \in 1..n : tpl[i].k = "exec"}),
         message |-> ""]
interpolate(tpl, vs, lec) ==
    LET n  == InterpReach(tpl, vs)
        ok == n = Len(tpl)
    IN  [ok    |-> ok,
         out   |-> IF ok THEN [i \in 1..Len(tpl) |-> PartText(tpl[i], vs, lec)]
                   ELSE <<>>,
         execs |-> Cardinality({i \in 1..n : tpl[i].k = "exec"}),
         message |-> IF ok THEN "" ELSE "Undefined variable"]

\* parse_value (vars.c:1113-1357) on a one-piece text: empty, quoted,
\* true/false, the array literal that occurs, a number, else an identifier
\* whose variable is cloned
IsNumText(s) == s \in {"0", "1", "2", "3", "-1"}
parse_value(text, vs) ==
    IF text = <<>> THEN [ok |-> TRUE, value |-> StrV("")]
    ELSE LET p == text[1] IN
         IF p.q THEN [ok |-> TRUE, value |-> StrV(p.s)]
         ELSE IF p.s = "" THEN [ok |-> TRUE, value |-> StrV("")]
         ELSE IF p.s \in {"true", "false"} THEN [ok |-> TRUE, value |-> BoolV(p.s)]
         ELSE IF p.s = "[1, 2]"
         THEN [ok |-> TRUE, value |-> ArrV(<<NumV("1"), NumV("2")>>)]
         ELSE IF IsNumText(p.s) THEN [ok |-> TRUE, value |-> NumV(p.s)]
         ELSE IF vars_exists(vs, p.s) THEN [ok |-> TRUE, value |-> vars_get(vs, p.s)]
         ELSE [ok |-> FALSE, value |-> StrV("")]

\* ------------------------------------------------------------ label table
\* a lookup that finds nothing
find_label_index_none(ls, name) == 0
\* find_label_index (exec.c:150-157): first entry of that name, 0 if none
find_label_index(ls, name) ==
    IF \E i \in 1..Len(ls) : ls[i].name = name
    THEN CHOOSE i \in 1..Len(ls) :
            ls[i].name = name /\ \A j \in 1..(i-1) : ls[j].name # name
    ELSE 0
\* a table in which no name is found
is_label_name_never(ls, name) == FALSE
\* is_label_name (exec.c:159-161)
is_label_name(ls, name) == find_label_index(ls, name) > 0
\* find_label_end (exec.c:163-174): the next statement at or left of the
\* label's indent, else one past the last statement
find_label_end(a, idx) ==
    LET later == {i \in (idx+1)..Len(a) : a[i].indent_level <= a[idx].indent_level}
    IN  IF later = {} THEN Len(a) + 1
        ELSE CHOOSE i \in later : \A j \in later : i <= j

\* the raw line of a command, compared with the label names (exec.c:858-860)
RawIsName(tpl, name) == tpl = <<Lit(name)>>
CmdLabel(ls, tpl) ==
    IF \E i \in 1..Len(ls) : RawIsName(tpl, ls[i].name)
    THEN CHOOSE i \in 1..Len(ls) :
            RawIsName(tpl, ls[i].name) /\ \A j \in 1..(i-1) : ~RawIsName(tpl, ls[j].name)
    ELSE 0

\* ------------------------------------------------- conditional attributes
\* is_conditional_attr (exec.c:341-353)
is_conditional_attr(name) ==
    name \in {"windows", "win32", "linux", "macos", "darwin", "unix", "arch",
              "distro", "feature", "env", "exists"}
\* check_conditional_attr (exec.c:254-339): the platform names and feature
check_conditional_attr(attr, fs) ==
    CASE attr.name \in {"windows", "win32"} -> Platform = "windows"
      [] attr.name = "linux" -> Platform = "linux"
      [] attr.name \in {"macos", "darwin"} -> Platform = "macos"
      [] attr.name = "unix" -> Platform \in {"linux", "macos"}
      [] attr.name = "arch" ->
            IF Len(attr.params) > 0 THEN attr.params[1] = Arch ELSE FALSE
      [] attr.name = "distro" ->
            IF Len(attr.params) > 0 THEN attr.params[1] = Distro ELSE FALSE
      [] attr.name = "feature" ->
            IF Len(attr.params) > 0 THEN feature_exists(fs, attr.params[1]) ELSE FALSE
      [] attr.name = "env" ->
            IF Len(attr.params) = 0 THEN FALSE
            ELSE IF attr.params[1] \notin DOMAIN Environ THEN FALSE
            ELSE IF Len(attr.params) > 1 THEN Environ[attr.params[1]] = attr.params[2]
            ELSE TRUE
      [] attr.name = "exists" ->
            IF Len(attr.params) > 0 THEN attr.params[1] \in Dirs ELSE FALSE
      [] OTHER -> TRUE
\* check_pending_conditionals (exec.c:355-365)
check_pending_conditionals(a, pend, fs) ==
    \A i \in 1..Len(pend) :
        is_conditional_attr(a[pend[i]].name) => check_conditional_attr(a[pend[i]], fs)

\* the names eval_condition compares under this build's #ifdef branch,
\* and those it answers true (exec.c:664-687)
PlatformConds == {"#windows", "#win32", "#linux", "#macos", "#unix"}
PlatformTrue ==
    CASE Platform = "windows" -> {"#windows", "#win32"}
      [] Platform = "linux" -> {"#linux", "#unix"}
      [] OTHER -> {"#macos", "#unix"}
\* eval_condition (exec.c:607-723) on the conditions that occur
\* #feature( and #defined( first; then the platform names the build
\* compares with strcmp (exec.c:664-687: #darwin is in none of the lists);
\* any other text is interpolated and tested for truth (exec.c:689-720):
\* "false", the empty text and a zero number are false, the rest is true
eval_condition(cond, fs, vs) ==
    CASE cond = "#feature(f)" -> feature_exists(fs, "f")
      [] cond = "#feature(g)" -> feature_exists(fs, "g")
      [] cond = "#defined(v)" -> vars_exists(vs, "v")
      [] cond = "#defined(x)" -> vars_exists(vs, "x")
      [] cond \in PlatformConds -> cond \in PlatformTrue
      [] cond \in {"false", "", "0"} -> FALSE
      [] OTHER -> TRUE

\* the #if scan for the matching #else / #endif (exec.c:912-932,
\* 1066-1086, 1158-1178): statements of another indent are passed over
RECURSIVE IfScan(_, _, _, _, _, _, _)
IfScan(a, ind, j, end, depth, else_idx, found_else) ==
    IF j >= end \/ depth = 0
    THEN [else_idx |-> else_idx, found_else |-> found_else, endif_idx |-> 0]
    ELSE LET s == a[j] IN
         IF s.indent_level # ind
         THEN IfScan(a, ind, j+1, end, depth, else_idx, found_else)
         ELSE IF s.type = "IF"
         THEN IfScan(a, ind, j+1, end, depth+1, else_idx, found_else)
         ELSE IF s.type = "ELSE" /\ depth = 1
         THEN IfScan(a, ind, j+1, end, depth, j, TRUE)
         ELSE IF s.type = "ENDIF"
         THEN IF depth = 1
              THEN [else_idx |-> else_idx, found_else |-> found_else, endif_idx |-> j]
              ELSE IfScan(a, ind, j+1, end, depth-1, else_idx, found_else)
         ELSE IfScan(a, ind, j+1, end, depth, else_idx, found_else)

\* ------------------------------------------------------ command attributes
\* cmd_attrs_init (exec.c:380-383)
cmd_attrs_init ==
    [ignore_fail |-> FALSE, expect_code |-> 0, has_expect |-> FALSE,
     cwd |-> NULL, shell |-> NULL, timeout_ms |-> 0, once |-> FALSE,
     save_stream |-> NULL, save_var |-> NULL, use_system_shell |-> FALSE]

\* one attribute of apply_pending_attrs' loop (exec.c:394-452) on the
\* pair [attrs, gshell]; gshell is the global shell slot
ApplyAttr(attr, st) ==
    LET n == Len(attr.params)
        at == st.attrs
    IN
    CASE attr.name = "ignorefail" -> [st EXCEPT !.attrs.ignore_fail = TRUE]
      [] attr.name = "expect" ->
            [st EXCEPT !.attrs.has_expect = TRUE,
                       !.attrs.expect_code = IF n > 0 THEN Atoi(attr.params[1])
                                             ELSE at.expect_code]
      [] attr.name = "cwd" ->
            IF n > 0 THEN [st EXCEPT !.attrs.cwd = attr.params[1]] ELSE st
      [] attr.name = "shell" ->
            IF n = 0 THEN [st EXCEPT !.attrs.shell = "/bin/sh"]
            ELSE IF attr.params[1] = "default"
            THEN [st EXCEPT !.attrs.use_system_shell = TRUE,
                            !.gshell = IF n > 1 /\ attr.params[2] = "global"
                                       THEN NULL ELSE st.gshell]
            ELSE IF n > 1 /\ attr.params[2] = "global"
            THEN [st EXCEPT !.gshell = attr.params[1]]
            ELSE [st EXCEPT !.attrs.shell = attr.params[1]]
      [] attr.name = "timeout" ->
            IF n > 0 THEN [st EXCEPT !.attrs.timeout_ms = Atoi(attr.params[1])] ELSE st
      [] attr.name = "once" -> [st EXCEPT !.attrs.once = TRUE]
      [] attr.name = "save" ->
            IF n >= 2 THEN [st EXCEPT !.attrs.save_stream = attr.params[1],
                                      !.attrs.save_var = attr.params[2]]
            ELSE st
      [] OTHER -> st

\* apply_pending_attrs (exec.c:392-455): the buffer in order
RECURSIVE ApplyFrom(_, _, _, _)
ApplyFrom(a, pend, k, st) ==
    IF k > Len(pend) THEN st
    ELSE ApplyFrom(a, pend, k+1, ApplyAttr(a[pend[k]], st))
apply_pending_attrs(a, pend, gshell) ==
    ApplyFrom(a, pend, 1, [attrs |-> cmd_attrs_init, gshell |-> gshell])

\* --------------------------------------------------------------- exec_command
\* a resolution that prefers the global slot
UseShell_global_first(attrs, gshell) ==
    IF gshell # NULL THEN gshell ELSE attrs.shell
\* the shell a command runs under (exec.c:486-489); NULL: system(cmd)
UseShell(attrs, gshell) ==
    IF attrs.use_system_shell THEN NULL
    ELSE IF attrs.shell # NULL THEN attrs.shell ELSE gshell

\* what the wait reports for a child (exec.c:534-548): under a shell the
\* run primitive's boolean only, under system() the wait status
ChildResult(use_shell, child) ==
    IF use_shell # NULL
    THEN LET success == child.exited /\ child.code = 0
         IN  [success |-> success, exit_code |-> IF success THEN 0 ELSE 1]
    ELSE [success |-> child.exited /\ child.code = 0,
          exit_code |-> IF child.exited THEN child.code ELSE -1]

\* #expect, the default failure and #ignorefail (exec.c:552-566): the
\* value returned and the error recorded, if any
CommandVerdict(attrs, res, line) ==
    LET succ1 == IF attrs.has_expect THEN res.exit_code = attrs.expect_code
                 ELSE res.success
        err   == IF attrs.has_expect /\ ~succ1
                 THEN set_error("RUNTIME", "Expected exit code", line)
                 ELSE IF ~attrs.has_expect /\ ~res.success /\ ~attrs.ignore_fail
                 THEN set_error("RUNTIME", "Command failed", line)
                 ELSE NoError
    IN  [success |-> IF attrs.ignore_fail THEN TRUE ELSE succ1, err |-> err]

\* chdir: fails, leaving the directory, when the target does not exist
chdir(dir, path) == IF path \in Dirs THEN path ELSE dir
\* the directory while the child runs (exec.c:474-481)
CwdEnter(attrs, dir) == IF attrs.cwd # NULL THEN chdir(dir, attrs.cwd) ELSE dir
\* a command that does not go back
CwdLeave_stay(attrs, old, dir) == dir
\* the directory after the command (exec.c:568-571); old is getcwd's answer
CwdLeave(attrs, old, dir) == IF attrs.cwd # NULL THEN chdir(dir, old) ELSE dir

\* #save (exec.c:505-532): only under a shell; the stream is redirected to
\* the capture file when it is stdout or stderr, the file is read into the
\* variable (the empty string when it cannot be read) and deleted
SaveApplies(attrs, use_shell) ==
    use_shell # NULL /\ attrs.save_stream # NULL /\ attrs.save_var # NULL
SaveVars(attrs, use_shell, out, vs) ==
    IF SaveApplies(attrs, use_shell)
    THEN vars_set(vs, attrs.save_var,
                  StrV(IF attrs.save_stream \in {"stdout", "stderr"} THEN out ELSE ""))
    ELSE vs

\* ------------------------------------------------------------------ frames
\* A walker on the C stack.  kind: "top" (exec_top_level), "rerun"
\* (exec_top_level_except_calls_and_gotos, called by exec_label for label
\* `label'), "range" (exec_range over [i, end)).  ret: who called a range,
\* "label" (exec_label, which saved prev_label in `prev') or "walker".
\* cur0 and seen are history: the current label index when the invocation
\* began, and the statements this range handed to exec_stmt.  A return is
\* noted with the depth of the stack: 1 is execute's own exec_label, a
\* call has its caller's walker below it.
Frame(kind, i, end, ret, label, prev, cur0) ==
    [kind |-> kind, i |-> i, end |-> end, ret |-> ret, label |-> label,
     prev |-> prev, cur0 |-> cur0, seen |-> <<>>]

Top == stack[Len(stack)]
Pop(stk) == SubSeq(stk, 1, Len(stk) - 1)
Adv(stk, n) == [stk EXCEPT ![Len(stk)].i = n]
Saw(stk, i) == [stk EXCEPT ![Len(stk)].seen = Append(@, i)]

NoRet == [label |-> 0, cur0 |-> 0, after |-> 0, first |-> 0, end |-> 0,
          seen |-> <<>>, depth |-> 0]
NoGoto == [from |-> 0, target |-> 0, next |-> 0]
NoCmd == [idx |-> 0, text |-> <<>>, spawned |-> FALSE, dry |-> FALSE,
          attrs |-> cmd_attrs_init, use_shell |-> NULL,
          child |-> [exited |-> TRUE, code |-> 0], out |-> "",
          success |-> TRUE, cwd_before |-> "", cwd_after |-> "", want |-> <<>>,
          saved |-> [t |-> "unset", v |-> ""],
          pend |-> <<>>, gshell_before |-> NULL]

\* exec_label's epilogue (exec.c:1002-1006) for a body range, or the plain
\* return of a branch range (exec.c:970): the stack, the current label
\* index and execute()'s result when the last walker has returned
ReturnFromRange(stk, cli) ==
    LET f == stk[Len(stk)] IN
    [stack  |-> Pop(stk),
     cli    |-> IF f.ret = "label" THEN f.prev ELSE cli,
     status |-> IF Len(stk) = 1 THEN "ok" ELSE "run"]
\* history of that return
RetNote(stk, old) ==
    LET f == stk[Len(stk)] IN
    IF f.ret = "label"
    THEN [label |-> f.label, cur0 |-> f.cur0, after |-> f.prev,
          first |-> labels[f.label].index + 1, end |-> f.end, seen |-> f.seen,
          depth |-> Len(stk)]
    ELSE old

\* what a walker does after exec_stmt returned true (exec.c:963-967,
\* 1117-1123, 1214-1220); ci, cli are ctx->current_index and
\* ctx->current_label_index as exec_stmt left them
AfterStmt(stk, ci, cli) ==
    LET f == stk[Len(stk)] IN
    IF ast[f.i].type = "GOTO" /\ ci # f.i
    THEN IF f.kind = "range" THEN ReturnFromRange(stk, cli)
         ELSE [stack |-> Adv(stk, ci + 1), cli |-> cli, status |-> "run"]
    ELSE [stack |-> Adv(stk, f.i + 1), cli |-> cli, status |-> "run"]
AfterNote(stk, ci, old) ==
    LET f == stk[Len(stk)] IN
    IF ast[f.i].type = "GOTO" /\ ci # f.i /\ f.kind = "range"
    THEN RetNote(stk, old) ELSE old

\* a callee returned false: every caller returns false, and each
\* exec_label on the way restores the label index it saved (exec.c:1004),
\* so the outermost one decides
Unwound(stk, cli) ==
    LET S == {k \in 1..Len(stk) : stk[k].kind = "range" /\ stk[k].ret = "label"}
    IN  IF S = {} THEN cli
        ELSE stk[CHOOSE k \in S : \A j \in S : k <= j].prev

\* the walker's current statement reaches exec_stmt (exec.c:959, 1113, 1210)
Walking == status = "run" /\ stack # <<>>
AtStmt == Walking /\ Top.i < Top.end
TopLevelLabel(st) == st.type = "LABEL" /\ st.indent_level = 0
ToExecStmt ==
    /\ AtStmt
    /\ LET st == ast[Top.i] IN
       /\ st.type \notin {"IF", "ELSE", "ENDIF"}
       /\ \/ Top.kind = "range"
          \/ /\ st.indent_level = 0
             /\ ~TopLevelLabel(st)
             /\ Top.kind = "rerun" => st.type \notin {"CALL", "GOTO"}
\* ctx->current_index = i in the top-level walkers (exec.c:1058, 1150)
IndexAt(f) == IF f.kind = "range" THEN current_index ELSE f.i
\* the guard at the head of exec_stmt (exec.c:728-733)
Skipped(st) ==
    /\ st.type # "ATTR"
    /\ Len(pending_attrs) > 0
    /\ ~check_pending_conditionals(ast, pending_attrs, features)
NoteExec(i) ==
    IF last_goto.target # 0 /\ last_goto.next = 0
    THEN [last_goto EXCEPT !.next = i] ELSE last_goto

\* history: the variables written so far and the value last written
VarNames == {"x", "y", "z", "v", "hi", "out", "err", "nosuch", "now", "there"}
Unset == [t |-> "unset", v |-> ""]
Wrote(w, name, value) == [w EXCEPT ![name] = value]
\* the text a template expands to when every ${var} shows the value last
\* written to it
WantText(tpl, w, lec) ==
    [i \in 1..Len(tpl) |->
        IF tpl[i].k = "var" THEN Piece(FALSE, w[tpl[i].s].v)
        ELSE PartText(tpl[i], <<>>, lec)]

\* ================================================================ parser
\* A line of the Mewofile is the sequence of its characters; a C pointer
\* into a line is the suffix it points at.  The lines used here are long
\* enough that count_indent and the `+ indent * 4' of parse stay inside
\* the line's buffer.
Lower == {"a", "b", "c", "d", "e", "f", "g", "h", "i", "j", "k", "l", "m",
          "n", "o", "p", "q", "r", "s", "t", "u", "v", "w", "x", "y", "z"}
Upper == {"A", "B", "C", "D", "E", "F", "G", "H", "I", "J", "K", "L", "M",
          "N", "O", "P", "Q", "R", "S", "T", "U", "V", "W", "X", "Y", "Z"}
Digit == {"0", "1", "2", "3", "4", "5", "6", "7", "8", "9"}
isspace(c) == c \in {" ", "\t"}
isalnum(c) == c \in Lower \cup Upper \cup Digit
\* the test parse and parse_var_assign make on a name's first character
IsNameStart(c) == c \in Lower \cup Upper \cup {"_"}

\* p + n
Drop(s, n) == SubSeq(s, n + 1, Len(s))
\* while (*p && isspace(*p)) p++
RECURSIVE SkipSpace(_)
SkipSpace(s) == IF s # <<>> /\ isspace(Head(s)) THEN SkipSpace(Tail(s)) ELSE s
\* str_trim (parser.c:82-92): the last character is kept even when blank
RECURSIVE TrimRight(_)
TrimRight(s) ==
    IF Len(s) > 1 /\ isspace(s[Len(s)]) THEN TrimRight(SubSeq(s, 1, Len(s) - 1))
    ELSE s
str_trim(s) == TrimRight(SkipSpace(s))
\* starts_with (parser.c:146-148)
starts_with(str, prefix) ==
    Len(str) >= Len(prefix) /\ SubSeq(str, 1, Len(prefix)) = prefix
\* strchr: the position of the first c in s, 0 when there is none
strchr(s, c) ==
    IF \E p \in 1..Len(s) : s[p] = c
    THEN CHOOSE p \in 1..Len(s) : s[p] = c /\ \A q \in 1..(p - 1) : s[q] # c
    ELSE 0

\* ends_with_continuation (parser.c:96-102)
ends_with_continuation(s) ==
    /\ Len(s) > 0
    /\ s[Len(s)] = "\\"
    /\ ~(Len(s) >= 2 /\ s[Len(s) - 1] = "\\")

\* count_indent (parser.c:104-110): `count' is the column count and also the
\* index of the character looked at next
RECURSIVE IndentCount(_, _)
IndentCount(line, count) ==
    IF count < Len(line) /\ line[count + 1] \in {" ", "\t"}
    THEN IndentCount(line, count + (IF line[count + 1] = "\t" THEN 4 ELSE 1))
    ELSE count
count_indent(line) == IndentCount(line, 0) \div 4

\* is_empty_or_comment (parser.c:112-115)
is_empty_or_comment(line) ==
    LET t == SkipSpace(line) IN
    \/ t = <<>>
    \/ Head(t) = ";"
    \/ starts_with(t, <<"/", "/">>)

\* strip_comment (parser.c:117-144): the text before the first ; or //
\* outside double quotes
RECURSIVE StripFrom(_, _, _)
StripFrom(line, p, in_string) ==
    IF p > Len(line) THEN Len(line)
    ELSE LET c == line[p]
             ins == IF c = "\"" /\ (p = 1 \/ line[p - 1] # "\\")
                    THEN ~in_string ELSE in_string
         IN IF ~ins /\ (c = ";" \/ (c = "/" /\ p < Len(line) /\ line[p + 1] = "/"))
            THEN p - 1
            ELSE StripFrom(line, p + 1, ins)
strip_comment(line) == SubSeq(line, 1, StripFrom(line, 1, FALSE))

\* find_unquoted_char (parser.c:150-170): the position of the first c
\* outside '..' and "..", 0 when there is none
RECURSIVE FindUnquoted(_, _, _, _)
FindUnquoted(str, c, p, string_char) ==
    IF p > Len(str) THEN 0
    ELSE IF string_char = NULL
         THEN IF str[p] \in {"\"", "'"} THEN FindUnquoted(str, c, p + 1, str[p])
              ELSE IF str[p] = c THEN p
              ELSE FindUnquoted(str, c, p + 1, NULL)
         ELSE FindUnquoted(str, c, p + 1,
                           IF str[p] = string_char THEN NULL ELSE string_char)
find_unquoted_char(str, c) == FindUnquoted(str, c, 1, NULL)

\* is_single_identifier_before_eq (parser.c:172-189); p and start count the
\* characters before the pointer
RECURSIVE BackSpace(_, _)
BackSpace(s, p) == IF p > 0 /\ isspace(s[p]) THEN BackSpace(s, p - 1) ELSE p
RECURSIVE BackIdent(_, _)
BackIdent(s, p) ==
    IF p > 0 /\ (isalnum(s[p]) \/ s[p] = "_") THEN BackIdent(s, p - 1) ELSE p
is_single_identifier_before_eq(s) ==
    LET eq == strchr(s, "=") IN
    IF eq = 0 THEN FALSE
    ELSE LET p == BackSpace(s, eq - 1)
             start == BackIdent(s, p)
         IN /\ \A c \in 1..start : isspace(s[c])
            /\ start # p

\* what a parse_* function hands back: a statement without indent and line,
\* or NULL with or without an error recorded
NoStmt(err) == [ok |-> FALSE, stmt |-> NULL, err |-> err]
Made(type, name, params, tpl) ==
    [ok |-> TRUE,
     stmt |-> [type |-> type, name |-> name, params |-> params, tpl |-> tpl],
     err |-> NoError]

\* the text up to the `)' that closes an already open `(' (parser.c:222-226,
\* 385-389): the pointer stops on that `)' or at the end of the line
RECURSIVE ParenContent(_, _)
ParenContent(s, depth) ==
    IF s = <<>> THEN 0
    ELSE LET d == depth + (IF Head(s) = "(" THEN 1
                           ELSE IF Head(s) = ")" THEN -1 ELSE 0)
         IN IF d > 0 THEN 1 + ParenContent(Tail(s), d) ELSE 0

\* one parameter of an attribute (parser.c:246-250): its length
RECURSIVE ParamEnd(_, _)
ParamEnd(s, depth) ==
    IF s = <<>> \/ (Head(s) \in {",", ")"} /\ depth = 0) THEN 0
    ELSE 1 + ParamEnd(Tail(s), depth + (IF Head(s) = "(" THEN 1
                                        ELSE IF Head(s) = ")" THEN -1 ELSE 0))
\* the parameter loop of parse_attr (parser.c:240-266)
RECURSIVE AttrParams(_, _)
AttrParams(s, ps) ==
    IF s = <<>> \/ Head(s) = ")" \/ Len(ps) >= 3 THEN ps
    ELSE LET t == SkipSpace(s)
             n == ParamEnd(t, 0)
             rest == Drop(t, n)
             ps2 == IF n > 0 THEN Append(ps, str_trim(SubSeq(t, 1, n))) ELSE ps
         IN AttrParams(IF rest # <<>> /\ Head(rest) = "," THEN Tail(rest) ELSE rest,
                       ps2)
\* the name of an attribute: up to `(', a blank or the end
RECURSIVE NameLen(_)
NameLen(s) ==
    IF s # <<>> /\ Head(s) # "(" /\ ~isspace(Head(s)) THEN 1 + NameLen(Tail(s))
    ELSE 0
\* parse_attr (parser.c:191-271)
parse_attr(line, line_number) ==
    LET p == SkipSpace(line) IN
    IF p = <<>> \/ Head(p) # "#" THEN NoStmt(NoError)
    ELSE LET n == NameLen(Tail(p))
             name == SubSeq(Tail(p), 1, n)
             q == SkipSpace(Drop(Tail(p), n))
         IN IF n = 0
            THEN NoStmt(set_error("SYNTAX", "Expected attribute name after '#'",
                                  line_number))
            ELSE IF q # <<>> /\ Head(q) = "("
            THEN IF name = <<"f", "e", "a", "t", "u", "r", "e", "s">>
                 THEN Made("ATTR", name,
                           <<str_trim(SubSeq(Tail(q), 1, ParenContent(Tail(q), 1)))>>,
                           <<>>)
                 ELSE Made("ATTR", name, AttrParams(Tail(q), <<>>), <<>>)
            ELSE Made("ATTR", name, <<>>, <<>>)

\* parse_var_assign (parser.c:273-340)
RECURSIVE LastOf(_, _, _, _)
LastOf(s, c, from, to) ==
    IF to < from THEN 0
    ELSE IF s[to] = c THEN to ELSE LastOf(s, c, from, to - 1)
RECURSIVE BackSpaceTo(_, _, _)
BackSpaceTo(s, p, low) ==
    IF p > low /\ isspace(s[p]) THEN BackSpaceTo(s, p - 1, low) ELSE p
parse_var_assign(line, line_number) ==
    LET eq == strchr(line, "=") IN
    IF eq = 0 THEN NoStmt(NoError)
    ELSE
    LET name_start == Len(line) - Len(SkipSpace(line)) + 1
        name_end == BackSpaceTo(line, eq - 1, name_start)
        bracket_open == LastOf(line, "[", name_start, name_end)
        bracket_close == LastOf(line, "]", name_start, name_end)
        check_end == IF bracket_open # 0 THEN bracket_open ELSE name_end + 1
        value_start == SkipSpace(Drop(line, eq))
    IN IF name_end < name_start THEN NoStmt(NoError)
       ELSE IF ~IsNameStart(line[name_start]) THEN NoStmt(NoError)
       ELSE IF \E p \in (name_start + 1)..(check_end - 1) :
                   ~(IsNameStart(line[p]) \/ line[p] \in Digit)
            THEN NoStmt(NoError)
       ELSE IF bracket_open # 0 /\ bracket_close # 0 /\ bracket_close > bracket_open
            THEN Made("INDEX_ASSIGN",
                      SubSeq(line, name_start, bracket_open - 1),
                      <<SubSeq(line, bracket_open + 1, bracket_close - 1)>>,
                      value_start)
       ELSE Made("VAR_ASSIGN", SubSeq(line, name_start, name_end), <<>>,
                 value_start)

\* parse_label (parser.c:342-366)
parse_label(line, line_number) ==
    LET colon == strchr(line, ":") IN
    IF colon = 0 THEN NoStmt(NoError)
    ELSE
    LET name_start == Len(line) - Len(SkipSpace(line))
        name_end == BackSpaceTo(line, colon - 1, name_start)
    IN IF name_end <= name_start
       THEN NoStmt(set_error("SYNTAX", "missing label name", line_number))
       ELSE Made("LABEL", SubSeq(line, name_start + 1, name_end), <<>>, <<>>)

\* parse_conditional (parser.c:368-406)
parse_conditional(line, line_number) ==
    LET p == SkipSpace(line) IN
    IF ~starts_with(p, <<"#", "i", "f">>) THEN NoStmt(NoError)
    ELSE LET q == SkipSpace(Drop(p, 3)) IN
         IF q = <<>> \/ Head(q) # "("
         THEN NoStmt(set_error("SYNTAX", "Expected '(' after '#if'", line_number))
         ELSE Made("IF", SubSeq(Tail(q), 1, ParenContent(Tail(q), 1)), <<>>, <<>>)

\* a statement placed in the output: parse sets indent_level and, for every
\* statement but the attributes of the prefix loop, line_number
Placed(m, indent, line_number) ==
    Stmt(m.stmt.type, indent, line_number, m.stmt.name, m.stmt.params, m.stmt.tpl)

\* how parse steps over an attribute it has taken (parser.c:470-483)
RECURSIVE SkipParens(_, _)
SkipParens(s, depth) ==
    IF s # <<>> /\ depth > 0
    THEN SkipParens(Tail(s), depth + (IF Head(s) = "(" THEN 1
                                      ELSE IF Head(s) = ")" THEN -1 ELSE 0))
    ELSE s
AfterAttr(after) ==
    LET a == Drop(Tail(after), NameLen(Tail(after)))
        b == IF a # <<>> /\ Head(a) = "(" THEN SkipParens(Tail(a), 1) ELSE a
        c == IF b # <<>> /\ Head(b) = ":" THEN Tail(b) ELSE b
    IN SkipSpace(c)
\* the attribute prefix loop (parser.c:464-487): calloc leaves the
\* attribute's line_number 0
RECURSIVE AttrLoop(_, _, _, _)
AttrLoop(after, indent, line_number, acc) ==
    IF after # <<>> /\ Head(after) = "#"
    THEN LET a == parse_attr(after, line_number) IN
         IF a.ok
         THEN AttrLoop(AfterAttr(after), indent, line_number,
                       Append(acc, Placed(a, indent, 0)))
         ELSE [stmts |-> acc, after |-> after, err |-> a.err]
    ELSE [stmts |-> acc, after |-> after, err |-> NoError]

\* the continuation loop (parser.c:564-585): acc without its backslash, a
\* blank, and the next line without comment and surrounding blanks
RECURSIVE Continue(_, _, _)
Continue(ls, i, acc) ==
    IF ends_with_continuation(acc) /\ i + 1 < Len(ls)
    THEN Continue(ls, i + 1,
                  SubSeq(acc, 1, Len(acc) - 1) \o <<" ">>
                      \o str_trim(strip_comment(ls[i + 2])))
    ELSE [i |-> i, acc |-> acc]

\* goto / call (parser.c:526-561)
Jump(after_attrs, type, line_number) ==
    LET target == SkipSpace(Drop(after_attrs, 4)) IN
    IF target = <<>>
    THEN NoStmt(set_error("SYNTAX",
                          IF type = "GOTO" THEN "Expected label name after 'goto'"
                          ELSE "Expected label name after 'call'",
                          line_number))
    ELSE IF IsNameStart(Head(target))
    THEN Made(type, str_trim(target), <<>>, <<>>)
    ELSE Made("COMMAND", <<>>, <<>>, after_attrs)

\* what one turn of parse's loop does with line ls[i + 1] (i is the C
\* index) when the error slot holds `slot': the statements it adds, the
\* error slot afterwards, the index it leaves in i, and whether parse
\* returns from inside the loop
Turn(stmts, err, i, returns) ==
    [stmts |-> stmts, err |-> err, i |-> i, returns |-> returns]
\* `if (!stmt && has_error()) return ast;' and `if (stmt) add_stmt(..)'
One(m, indent, i, before, slot) ==
    LET e == IF m.err # NoError THEN m.err ELSE slot IN
    IF ~m.ok
    THEN Turn(before, e, i, e # NoError)
    ELSE Turn(Append(before, Placed(m, indent, i + 1)), e, i, FALSE)
ParseLine(ls, i, slot) ==
    LET line == ls[i + 1] IN
    IF is_empty_or_comment(line) THEN Turn(<<>>, slot, i, FALSE)
    ELSE
    LET line_no_comment == strip_comment(line)
        indent == count_indent(line_no_comment)
        trimmed == SkipSpace(Drop(line_no_comment, indent * 4))
        pre == AttrLoop(trimmed, indent, i + 1, <<>>)
        after_attrs == pre.after
        slot1 == IF pre.err # NoError THEN pre.err ELSE slot
    IN
    IF \/ starts_with(trimmed, <<"#", "i", "f", "(">>)
       \/ starts_with(trimmed, <<"#", "i", "f", " ">>)
    THEN One(parse_conditional(trimmed, i + 1), indent, i, <<>>, slot)
    ELSE IF starts_with(trimmed, <<"#", "e", "l", "s", "e">>)
    THEN One(Made("ELSE", <<>>, <<>>, <<>>), indent, i, <<>>, slot)
    ELSE IF starts_with(trimmed, <<"#", "e", "n", "d", "i", "f">>)
    THEN One(Made("ENDIF", <<>>, <<>>, <<>>), indent, i, <<>>, slot)
    ELSE IF after_attrs = <<>> THEN Turn(pre.stmts, slot1, i, FALSE)
    ELSE IF Head(after_attrs) = "#"
    THEN IF starts_with(after_attrs, <<"#", "i", "f", "(">>)
         THEN One(parse_conditional(after_attrs, i + 1), indent, i, pre.stmts, slot1)
         ELSE IF starts_with(after_attrs, <<"#", "e", "l", "s", "e">>)
         THEN One(Made("ELSE", <<>>, <<>>, <<>>), indent, i, pre.stmts, slot1)
         ELSE IF starts_with(after_attrs, <<"#", "e", "n", "d", "i", "f">>)
         THEN One(Made("ENDIF", <<>>, <<>>, <<>>), indent, i, pre.stmts, slot1)
         ELSE Turn(pre.stmts, set_error("SYNTAX", "Unknown directive", i + 1),
                   i, TRUE)
    ELSE IF find_unquoted_char(after_attrs, ":") # 0 /\ indent = 0
    THEN One(parse_label(after_attrs, i + 1), indent, i, pre.stmts, slot1)
    ELSE IF /\ find_unquoted_char(after_attrs, "=") # 0
            /\ is_single_identifier_before_eq(after_attrs)
    THEN One(parse_var_assign(after_attrs, i + 1), indent, i, pre.stmts, slot1)
    ELSE IF \/ starts_with(after_attrs, <<"g", "o", "t", "o", " ">>)
            \/ after_attrs = <<"g", "o", "t", "o">>
    THEN One(Jump(after_attrs, "GOTO", i + 1), indent, i, pre.stmts, slot1)
    ELSE IF \/ starts_with(after_attrs, <<"c", "a", "l", "l", " ">>)
            \/ after_attrs = <<"c", "a", "l", "l">>
    THEN One(Jump(after_attrs, "CALL", i + 1), indent, i, pre.stmts, slot1)
    ELSE LET c == Continue(ls, i, after_attrs) IN
         One(Made("COMMAND", <<>>, <<>>, c.acc), indent, c.i, pre.stmts, slot1)

\* parse (parser.c:415-602) from index i on, with the statements made so far
\* and the error slot
RECURSIVE ParseFrom(_, _, _, _)
ParseFrom(ls, i, made, slot) ==
    IF i >= Len(ls) THEN [stmts |-> made, err |-> slot]
    ELSE LET t == ParseLine(ls, i, slot) IN
         IF t.returns THEN [stmts |-> made \o t.stmts, err |-> t.err]
         ELSE ParseFrom(ls, t.i + 1, made \o t.stmts, t.err)
parse(ls) == ParseFrom(ls, 0, <<>>, NoError)

\* ------------------------------------------------------------------- Init
Init ==
    /\ lines = <<>>
    /\ line_i = 0
    /\ ast \in {Programs[k] : k \in 1..Len(Programs)}
    /\ label_arg \in LabelArgs
    /\ dry_run \in BOOLEAN
    /\ default_shell \in {NULL, "sh"}
    /\ cli_enable \in IF ast \in {ProgFeat, ProgVars}
                     THEN {<<>>, <<"f">>, <<"g">>} ELSE {<<>>, <<"f">>}
    /\ cli_disable \in {<<>>, <<"f">>}
    /\ args \in IF ast = ProgArgs THEN ArgLists ELSE {<<>>}
    /\ status = "init"
    /\ labels = <<>>
    /\ stack = <<>>
    /\ current_index = 1
    /\ current_label_index = 0
    /\ pending_attrs = <<>>
    /\ vars = <<>>
    /\ features = <<>>
    /\ last_exit_code = 0
    /\ global_shell = NULL
    /\ error = NoError
    /\ cwd = "/home/u"
    /\ nchildren = 0
    /\ spawned = [i \in 1..Len(ast) |-> 0]
    /\ last_cmd = NoCmd
    /\ last_goto = NoGoto
    /\ last_ret = NoRet
    /\ last_write = [n \in VarNames |-> Unset]
    /\ heap = EmptyHeap
    /\ last_op = NoOp

\* --------------------------------------------------------------- execute
\* register_all_labels (exec.c:1010-1036) from statement i on: a statement
\* right after a false conditional attribute is passed over; a named
\* top-level label is registered, a second one of its name is an error
\* a registration that looks at no guard
RECURSIVE RegisterFrom_all(_, _, _, _)
RegisterFrom_all(a, i, ls, fs) ==
    IF i > Len(a) THEN [ok |-> TRUE, labels |-> ls, at |-> 0]
    ELSE IF TopLevelLabel(a[i]) /\ a[i].name # ""
    THEN IF is_label_name(ls, a[i].name)
         THEN [ok |-> FALSE, labels |-> ls, at |-> i]
         ELSE RegisterFrom_all(a, i+1, Append(ls, [name |-> a[i].name, index |-> i]), fs)
    ELSE RegisterFrom_all(a, i+1, ls, fs)
RECURSIVE RegisterFrom(_, _, _, _)
RegisterFrom(a, i, ls, fs) ==
    IF i > Len(a) THEN [ok |-> TRUE, labels |-> ls, at |-> 0]
    ELSE IF /\ i > 1 /\ a[i-1].type = "ATTR"
            /\ is_conditional_attr(a[i-1].name)
            /\ ~check_conditional_attr(a[i-1], fs)
    THEN RegisterFrom(a, i+1, ls, fs)
    ELSE IF TopLevelLabel(a[i]) /\ a[i].name # ""
    THEN IF is_label_name(ls, a[i].name)
         THEN [ok |-> FALSE, labels |-> ls, at |-> i]
         ELSE RegisterFrom(a, i+1, Append(ls, [name |-> a[i].name, index |-> i]), fs)
    ELSE RegisterFrom(a, i+1, ls, fs)
register_all_labels(a, fs) == RegisterFrom(a, 1, <<>>, fs)

\* the head of exec_label (exec.c:973-984): the label is looked up and the
\* top level is run again; cur0 is history
RerunFrame(lbl, cur0) == Frame("rerun", 1, Len(ast) + 1, "-", lbl, 0, cur0)

\* execute (exec.c:1242-1282): seed the features, register the labels,
\* then the named label or the top level
Execute ==
    /\ status = "init"
    /\ LET fs  == DisableAll(EnableAll(<<>>, cli_enable), cli_disable)
           reg == register_all_labels(ast, fs)
           lbl == find_label_index(reg.labels, label_arg)
       IN
       /\ features' = fs
       /\ labels' = reg.labels
       /\ IF ~reg.ok
          THEN /\ status' = "fail"
               /\ error' = set_error("RUNTIME", "Duplicate label", reg.at)
               /\ stack' = <<>>
          ELSE IF label_arg = NULL
          THEN /\ status' = "run"
               /\ stack' = <<Frame("top", 1, Len(ast) + 1, "-", 0, 0, 0)>>
               /\ error' = error
          ELSE IF lbl = 0
          THEN /\ status' = "fail"
               /\ error' = set_error("RUNTIME", "Unknown label", 0)
               /\ stack' = <<>>
          ELSE /\ status' = "run"
               /\ stack' = <<RerunFrame(lbl, current_label_index)>>
               /\ error' = error
    /\ UNCHANGED <<inputs, current_index, current_label_index, pending_attrs,
                   vars, last_exit_code, global_shell, cwd, nchildren, spawned,
                   last_cmd, last_goto, last_ret, last_write>>

\* ------------------------------------------------------- walkers' own steps
hist == <<nchildren, spawned, last_cmd, last_goto, last_ret, last_write>>
store == <<vars, features, last_exit_code, global_shell, cwd>>

\* a callee returned false (or exec_stmt did): execute returns false
Failing(err) ==
    /\ status' = "fail"
    /\ stack' = <<>>
    /\ error' = err
    /\ current_label_index' = Unwound(stack, current_label_index)

\* exec_top_level's loop ends (exec.c:1041, 1126)
TopDone ==
    /\ Walking /\ Top.kind = "top" /\ Top.i >= Top.end
    /\ stack' = Pop(stack)
    /\ status' = IF Len(stack) = 1 THEN "ok" ELSE "run"
    /\ UNCHANGED <<inputs, labels, current_index, current_label_index,
                   pending_attrs, store, error, hist>>

\* the re-run ends and exec_label goes on (exec.c:986-1002): the label
\* index is saved and set, and the body is walked as a range
RerunDone ==
    /\ Walking /\ Top.kind = "rerun" /\ Top.i >= Top.end
    /\ LET at == labels[Top.label].index IN
       stack' = Append(Pop(stack),
                   Frame("range", at + 1, find_label_end(ast, at), "label",
                         Top.label, current_label_index, Top.cur0))
    /\ current_label_index' = Top.label
    /\ UNCHANGED <<inputs, status, labels, current_index, pending_attrs, store,
                   error, hist>>

\* exec_range's loop ends (exec.c:903, 970)
RangeDone ==
    /\ Walking /\ Top.kind = "range" /\ Top.i >= Top.end
    /\ LET r == ReturnFromRange(stack, current_label_index) IN
       /\ stack' = r.stack
       /\ current_label_index' = r.cli
       /\ status' = r.status
    /\ last_ret' = RetNote(stack, last_ret)
    /\ UNCHANGED <<inputs, labels, current_index, pending_attrs, store, error,
                   nchildren, spawned, last_cmd, last_goto, last_write>>

\* a top-level label in a top-level walker (exec.c:1044-1055, 1135-1147):
\* an anonymous label's body is walked, a named block is passed over
WalkLabel ==
    /\ AtStmt /\ Top.kind \in {"top", "rerun"} /\ TopLevelLabel(ast[Top.i])
    /\ LET i == Top.i
           e == find_label_end(ast, i)
       IN  IF ast[i].name = ""
           THEN /\ Len(stack) < MaxDepth
                /\ stack' = Append(Adv(stack, e),
                                   Frame("range", i + 1, e, "walker", 0, 0, 0))
                /\ pending_attrs' = pending_attrs
           ELSE /\ stack' = Adv(stack, e)
                /\ pending_attrs' = <<>>
    /\ UNCHANGED <<inputs, status, labels, current_index, current_label_index,
                   store, error, hist>>

\* an indented statement in a top-level walker (exec.c:1057, 1123)
WalkIndented ==
    /\ AtStmt /\ Top.kind \in {"top", "rerun"}
    /\ ast[Top.i].indent_level # 0
    /\ stack' = Adv(stack, Top.i + 1)
    /\ UNCHANGED <<inputs, status, labels, current_index, current_label_index,
                   pending_attrs, store, error, hist>>

\* #if in any walker (exec.c:906-952, 1060-1106, 1152-1198)
WalkIf ==
    /\ AtStmt /\ ast[Top.i].type = "IF"
    /\ Top.kind \in {"top", "rerun"} => ast[Top.i].indent_level = 0
    /\ LET i  == Top.i
           st == ast[i]
           c  == eval_condition(st.name, features, vars)
           m  == IfScan(ast, st.indent_level, i + 1, Top.end, 1, 0, FALSE)
           bs == IF c THEN i + 1 ELSE m.else_idx + 1
           be == IF c /\ m.found_else THEN m.else_idx ELSE m.endif_idx
       IN
       /\ current_index' = IndexAt(Top)
       /\ IF m.endif_idx = 0
          THEN Failing(set_error("SYNTAX", "Missing #endif for #if", i))
          ELSE /\ IF c \/ m.found_else
                  THEN /\ Len(stack) < MaxDepth
                       /\ stack' = Append(Adv(stack, m.endif_idx + 1),
                                     Frame("range", bs, be, "walker", 0, 0, 0))
                  ELSE stack' = Adv(stack, m.endif_idx + 1)
               /\ UNCHANGED <<status, error, current_label_index>>
    /\ UNCHANGED <<inputs, labels, pending_attrs, store, hist>>

\* #else / #endif met by a walker (exec.c:954-957, 1108-1111, 1200-1203)
WalkElseEndif ==
    /\ AtStmt /\ ast[Top.i].type \in {"ELSE", "ENDIF"}
    /\ Top.kind \in {"top", "rerun"} => ast[Top.i].indent_level = 0
    /\ current_index' = IndexAt(Top)
    /\ stack' = Adv(stack, Top.i + 1)
    /\ UNCHANGED <<inputs, status, labels, current_label_index, pending_attrs,
                   store, error, hist>>

\* call / goto at the top level during the re-run (exec.c:1205-1208)
RerunSkip ==
    /\ AtStmt /\ Top.kind = "rerun"
    /\ ast[Top.i].indent_level = 0 /\ ast[Top.i].type \in {"CALL", "GOTO"}
    /\ current_index' = Top.i
    /\ stack' = Adv(stack, Top.i + 1)
    /\ UNCHANGED <<inputs, status, labels, current_label_index, pending_attrs,
                   store, error, hist>>

\* ------------------------------------------------------------- exec_stmt
\* the walker moves on after exec_stmt returned true; stk is the stack
\* with the history of this statement noted
MoveOn(stk, ci, cli) ==
    LET r == AfterStmt(stk, ci, cli) IN
    /\ stack' = r.stack
    /\ current_label_index' = r.cli
    /\ status' = r.status
    /\ last_ret' = AfterNote(stk, ci, last_ret)
Here == Saw(stack, Top.i)

\* a statement behind a false conditional attribute (exec.c:728-733): the
\* buffer is cleared and exec_stmt returns true
StmtSkipped ==
    /\ ToExecStmt /\ Skipped(ast[Top.i])
    /\ current_index' = IndexAt(Top)
    /\ pending_attrs' = <<>>
    /\ MoveOn(stack, IndexAt(Top), current_label_index)
    /\ UNCHANGED <<inputs, labels, store, error, nchildren, spawned, last_cmd,
                   last_goto, last_write>>

\* STMT_ATTR (exec.c:736-782): #assert, #features, or into the buffer
StmtAttr ==
    /\ ToExecStmt /\ ast[Top.i].type = "ATTR"
    /\ LET st == ast[Top.i] IN
       /\ current_index' = IndexAt(Top)
       /\ last_goto' = NoteExec(Top.i)
       /\ IF st.name = "assert"
          THEN /\ IF Len(st.params) = 0
                  THEN Failing(set_error("SYNTAX", "#assert requires a condition",
                                         st.line_number))
                  ELSE IF ~eval_condition(st.params[1], features, vars)
                  THEN Failing(set_error("RUNTIME", "Assertion failed",
                                         st.line_number))
                  ELSE /\ stack' = Adv(Here, Top.i + 1)
                       /\ UNCHANGED <<status, error, current_label_index>>
               /\ UNCHANGED <<features, pending_attrs>>
          ELSE IF st.name = "features"
          THEN /\ features' = EnableAll(features, st.params)
               /\ stack' = Adv(Here, Top.i + 1)
               /\ UNCHANGED <<status, error, current_label_index, pending_attrs>>
          ELSE /\ pending_attrs' = Append(pending_attrs, Top.i)
               /\ stack' = Adv(Here, Top.i + 1)
               /\ UNCHANGED <<status, error, current_label_index, features>>
    /\ UNCHANGED <<inputs, labels, vars, last_exit_code, global_shell, cwd,
                   nchildren, spawned, last_cmd, last_ret, last_write>>

\* STMT_VAR_ASSIGN (exec.c:784-798)
StmtVarAssign ==
    /\ ToExecStmt /\ ast[Top.i].type = "VAR_ASSIGN" /\ ~Skipped(ast[Top.i])
    /\ LET st == ast[Top.i]
           iv == interpolate(st.tpl, vars, last_exit_code)
           pv == parse_value(iv.out, vars)
       IN
       /\ nchildren + iv.execs <= MaxSpawn
       /\ current_index' = IndexAt(Top)
       /\ last_goto' = NoteExec(Top.i)
       /\ nchildren' = nchildren + iv.execs
       /\ IF ~iv.ok
          THEN /\ Failing(set_error("RUNTIME", iv.message, st.line_number))
               /\ UNCHANGED <<vars, pending_attrs, last_ret, last_write>>
          ELSE IF ~pv.ok
          THEN /\ Failing(set_error("RUNTIME", "Undefined variable", st.line_number))
               /\ UNCHANGED <<vars, pending_attrs, last_ret, last_write>>
          ELSE /\ vars' = vars_set(vars, st.name, pv.value)
               /\ last_write' = Wrote(last_write, st.name, pv.value)
               /\ pending_attrs' = <<>>
               /\ error' = error
               /\ MoveOn(Here, IndexAt(Top), current_label_index)
    /\ UNCHANGED <<inputs, labels, features, last_exit_code, global_shell, cwd,
                   spawned, last_cmd>>

\* STMT_LABEL handed to exec_stmt (exec.c:849-851)
StmtLabel ==
    /\ ToExecStmt /\ ast[Top.i].type = "LABEL" /\ ~Skipped(ast[Top.i])
    /\ current_index' = IndexAt(Top)
    /\ last_goto' = NoteExec(Top.i)
    /\ pending_attrs' = <<>>
    /\ MoveOn(Here, IndexAt(Top), current_label_index)
    /\ UNCHANGED <<inputs, labels, store, error, nchildren, spawned, last_cmd,
                   last_write>>

\* exec_label called from exec_stmt (exec.c:862, 885; 973-984): unknown
\* label, or the re-run starts; the caller resumes after this statement
Invoke(name, line) ==
    LET lbl == find_label_index(labels, name) IN
    IF lbl = 0
    THEN Failing(set_error("RUNTIME", "Unknown label", line))
    ELSE /\ Len(stack) < MaxDepth
         /\ stack' = Append(Saw(Adv(stack, Top.i + 1), Top.i),
                            RerunFrame(lbl, current_label_index))
         /\ UNCHANGED <<status, error, current_label_index>>

\* STMT_CALL (exec.c:883-886)
StmtCall ==
    /\ ToExecStmt /\ ast[Top.i].type = "CALL" /\ ~Skipped(ast[Top.i])
    /\ current_index' = IndexAt(Top)
    /\ last_goto' = NoteExec(Top.i)
    /\ pending_attrs' = <<>>
    /\ Invoke(ast[Top.i].name, ast[Top.i].line_number)
    /\ UNCHANGED <<inputs, labels, store, nchildren, spawned, last_cmd,
                   last_ret, last_write>>

\* STMT_COMMAND naming a label while inside a label (exec.c:860-863)
ImplicitCall(st) ==
    current_label_index > 0 /\ CmdLabel(labels, st.tpl) > 0
StmtImplicitCall ==
    /\ ToExecStmt /\ ast[Top.i].type = "COMMAND" /\ ~Skipped(ast[Top.i])
    /\ ImplicitCall(ast[Top.i])
    /\ current_index' = IndexAt(Top)
    /\ last_goto' = NoteExec(Top.i)
    /\ pending_attrs' = <<>>
    /\ Invoke(labels[CmdLabel(labels, ast[Top.i].tpl)].name, ast[Top.i].line_number)
    /\ UNCHANGED <<inputs, labels, store, nchildren, spawned, last_cmd,
                   last_ret, last_write>>

\* STMT_GOTO (exec.c:868-881)
StmtGoto ==
    /\ ToExecStmt /\ ast[Top.i].type = "GOTO" /\ ~Skipped(ast[Top.i])
    /\ LET st  == ast[Top.i]
           lbl == find_label_index(labels, st.name)
       IN
       IF lbl = 0
       THEN /\ Failing(set_error("RUNTIME", "Unknown label", st.line_number))
            /\ current_index' = IndexAt(Top)
            /\ last_goto' = NoteExec(Top.i)
            /\ UNCHANGED <<pending_attrs, last_ret>>
       ELSE /\ current_index' = labels[lbl].index
            /\ pending_attrs' = <<>>
            /\ last_goto' = [from |-> Top.i, target |-> labels[lbl].index, next |-> 0]
            /\ error' = error
            /\ MoveOn(Here, labels[lbl].index, lbl)
    /\ UNCHANGED <<inputs, labels, store, nchildren, spawned, last_cmd, last_write>>

\* STMT_COMMAND that is spawned: exec_command (exec.c:457-577)
StmtCommand ==
    /\ ToExecStmt /\ ast[Top.i].type = "COMMAND" /\ ~Skipped(ast[Top.i])
    /\ ~ImplicitCall(ast[Top.i])
    /\ \E child \in Children, out \in Outputs :
       LET st   == ast[Top.i]
           iv   == interpolate(st.tpl, vars, last_exit_code)
           ap   == apply_pending_attrs(ast, pending_attrs, global_shell)
           at   == ap.attrs
           us   == UseShell(at, ap.gshell)
           res  == ChildResult(us, child)
           vd   == CommandVerdict(at, res, st.line_number)
           dir1 == CwdEnter(at, cwd)
           dir2 == CwdLeave(at, cwd, dir1)
           note == [idx |-> Top.i, text |-> iv.out, spawned |-> ~dry_run,
                    dry |-> dry_run, attrs |-> at, use_shell |-> us,
                    child |-> child, out |-> out,
                    success |-> dry_run \/ vd.success,
                    cwd_before |-> cwd,
                    cwd_after |-> IF dry_run THEN cwd ELSE dir2,
                    want |-> WantText(st.tpl, last_write, last_exit_code),
                    saved |-> LET vs == SaveVars(at, us, out, vars) IN
                              IF ~dry_run /\ at.save_var # NULL
                                 /\ vars_exists(vs, at.save_var)
                              THEN vars_get(vs, at.save_var) ELSE Unset,
                    pend |-> pending_attrs, gshell_before |-> global_shell]
       IN
       /\ current_index' = IndexAt(Top)
       /\ last_goto' = NoteExec(Top.i)
       /\ IF ~iv.ok
          THEN \* interpolate failed (exec.c:458-461)
               /\ nchildren + iv.execs <= MaxSpawn
               /\ nchildren' = nchildren + iv.execs
               /\ Failing(set_error("RUNTIME", iv.message, st.line_number))
               /\ UNCHANGED <<pending_attrs, store, spawned, last_cmd, last_ret,
                              last_write>>
          ELSE IF dry_run
          THEN \* exec.c:465-472
               /\ nchildren + iv.execs <= MaxSpawn
               /\ nchildren' = nchildren + iv.execs
               /\ pending_attrs' = <<>>
               /\ global_shell' = ap.gshell
               /\ last_cmd' = note
               /\ MoveOn(Here, IndexAt(Top), current_label_index)
               /\ UNCHANGED <<vars, features, last_exit_code, cwd, error,
                              spawned, last_write>>
          ELSE \* exec.c:474-576
               /\ nchildren + iv.execs + 1 <= MaxSpawn
               /\ nchildren' = nchildren + iv.execs + 1
               /\ spawned' = [spawned EXCEPT ![Top.i] = @ + 1]
               /\ pending_attrs' = <<>>
               /\ global_shell' = ap.gshell
               /\ last_exit_code' = res.exit_code
               /\ vars' = SaveVars(at, us, out, vars)
               /\ last_write' = IF SaveApplies(at, us)
                                THEN Wrote(last_write, at.save_var,
                                           vars_get(vars', at.save_var))
                                ELSE last_write
               /\ cwd' = dir2
               /\ last_cmd' = note
               /\ features' = features
               /\ IF vd.success
                  THEN /\ error' = IF vd.err = NoError THEN error ELSE vd.err
                       /\ MoveOn(Here, IndexAt(Top), current_label_index)
                  ELSE /\ Failing(vd.err)
                       /\ last_ret' = last_ret
    /\ UNCHANGED <<inputs, labels>>

\* ------------------------------------------------------------------- Next
Next ==
    \/ Execute
    \/ TopDone
    \/ RerunDone
    \/ RangeDone
    \/ WalkLabel
    \/ WalkIndented
    \/ WalkIf
    \/ WalkElseEndif
    \/ RerunSkip
    \/ StmtSkipped
    \/ StmtAttr
    \/ StmtVarAssign
    \/ StmtLabel
    \/ StmtCall
    \/ StmtImplicitCall
    \/ StmtGoto
    \/ StmtCommand

Spec == Init /\ [][Next]_vars_all

\* main's exit status (main.c:260-279) once execute has returned
Done == status \in {"ok", "fail"}
ExitStatus == IF status = "ok" THEN 0 ELSE 1

\* ----------------------------------------------- a child that never exits
\* exec_command up to system() (exec.c:457-541) for a command that runs
\* under no shell and whose child does not exit on its own: the attributes
\* are applied, the directory is entered, and system() blocks until the
\* child exits; attrs.timeout_ms is not read
StmtCommandWaits ==
    /\ ToExecStmt /\ ast[Top.i].type = "COMMAND" /\ ~Skipped(ast[Top.i])
    /\ ~ImplicitCall(ast[Top.i])
    /\ ~dry_run
    /\ LET st == ast[Top.i]
           iv == interpolate(st.tpl, vars, last_exit_code)
           ap == apply_pending_attrs(ast, pending_attrs, global_shell)
       IN
       /\ iv.ok
       /\ UseShell(ap.attrs, ap.gshell) = NULL
       /\ nchildren + iv.execs + 1 <= MaxSpawn
       /\ nchildren' = nchildren + iv.execs + 1
       /\ spawned' = [spawned EXCEPT ![Top.i] = @ + 1]
       /\ global_shell' = ap.gshell
       /\ cwd' = CwdEnter(ap.attrs, cwd)
       /\ current_index' = IndexAt(Top)
       /\ last_goto' = NoteExec(Top.i)
       /\ status' = "wait"
    /\ UNCHANGED <<inputs, labels, stack, current_label_index, pending_attrs,
                   vars, features, last_exit_code, error, last_cmd, last_ret,
                   last_write>>

\* the command the interpreter waits on carries #timeout(MS), MS > 0
WaitsUnderTimeout ==
    /\ status = "wait"
    /\ apply_pending_attrs(ast, pending_attrs, global_shell).attrs.timeout_ms > 0

NextWait ==
    \/ Next
    \/ StmtCommandWaits

\* the interpreter takes a step whenever it can
SpecWait == Init /\ [][NextWait]_vars_all /\ WF_vars_all(NextWait)

\* -------------------------------------------------------- main and parse
\* the lines a Mewofile is put together from
LineTexts ==
    { <<"x", "=", "1">>,                          \* x=1
      <<"1", "=", "2">>,                          \* 1=2
      <<"a", "[", "0", "]", "=", "1">>,           \* a[0]=1
      <<"a", ":">>,                               \* a:
      <<":">>,                                    \* :
      <<" ", " ", " ", " ", "l", "s">>,           \* four blanks, ls
      <<"\t", "l", "s", " ", "-", "a">>,          \* a tab, ls -a
      <<"l", "s", " ", "\\">>,                    \* ls \
      <<";", " ", "c">>,                          \* ; c
      <<"#", "i", "f", "(", "f", ")">>,           \* #if(f)
      <<"#", "i", "f", " ", "f">>,                \* #if f
      <<"#", "e", "n", "d", "i", "f">>,           \* #endif
      <<"#", "q", " ", "l", "s">>,                \* #q ls
      <<"#", "q", " ", "#">>,                     \* #q #
      <<"g", "o", "t", "o">>,                     \* goto
      <<"c", "a", "l", "l", " ", "a">> }          \* call a
\* the files main reads: up to MaxLines lines
Files == UNION {[1..n -> LineTexts] : n \in 1..MaxLines}

\* what parse and main leave alone
beyond_parse == <<label_arg, dry_run, default_shell, cli_enable, cli_disable,
                  args, labels, stack, current_index, current_label_index,
                  pending_attrs, store, hist, heap, last_op>>

\* main up to its call of parse (main.c:240-248)
InitParse ==
    /\ lines \in Files
    /\ line_i = 0
    /\ ast = <<>>
    /\ label_arg = NULL
    /\ dry_run = FALSE
    /\ default_shell = NULL
    /\ cli_enable = <<>>
    /\ cli_disable = <<>>
    /\ args = <<>>
    /\ status = "parse"
    /\ labels = <<>>
    /\ stack = <<>>
    /\ current_index = 1
    /\ current_label_index = 0
    /\ pending_attrs = <<>>
    /\ vars = <<>>
    /\ features = <<>>
    /\ last_exit_code = 0
    /\ global_shell = NULL
    /\ error = NoError
    /\ cwd = "/home/u"
    /\ nchildren = 0
    /\ spawned = <<>>
    /\ last_cmd = NoCmd
    /\ last_goto = NoGoto
    /\ last_ret = NoRet
    /\ last_write = [n \in VarNames |-> Unset]
    /\ heap = EmptyHeap
    /\ last_op = NoOp

\* one turn of parse's loop (parser.c:418-599)
ParseTurn ==
    /\ status = "parse"
    /\ line_i < Len(lines)
    /\ LET t == ParseLine(lines, line_i, error) IN
       /\ ast' = ast \o t.stmts
       /\ error' = t.err
       /\ line_i' = IF t.returns THEN line_i ELSE t.i + 1
       /\ status' = IF t.returns THEN "parsed" ELSE "parse"
    /\ UNCHANGED <<lines, beyond_parse>>

\* parse runs out of lines (parser.c:601)
ParseEnd ==
    /\ status = "parse"
    /\ line_i >= Len(lines)
    /\ status' = "parsed"
    /\ UNCHANGED <<lines, line_i, ast, error, beyond_parse>>

\* a main that calls execute_and_cleanup whatever parse recorded
main_after_parse_run(err) == "init"
\* main after parse (main.c:260-266): with an error recorded it prints it and
\* returns 1, otherwise it calls execute_and_cleanup
main_after_parse(err) == IF err.type # "NONE" THEN "fail" ELSE "init"
MainAfterParse ==
    /\ status = "parsed"
    /\ status' = main_after_parse(error)
    /\ UNCHANGED <<lines, line_i, ast, error, beyond_parse>>

NextParse ==
    \/ ParseTurn
    \/ ParseEnd
    \/ MainAfterParse

SpecParse == InitParse /\ [][NextParse]_vars_all

\* ================================================================ claims
\* C1: after a goto to a registered label L with a body, the next statement
\* executed is the first statement of L's body, and a run that ends well
\* has executed it.
C1_GotoEntersBody ==
    (last_goto.target # 0
     /\ find_label_end(ast, last_goto.target) > last_goto.target + 1)
    => /\ last_goto.next # 0 => last_goto.next = last_goto.target + 1
       /\ status = "ok" => last_goto.next # 0

\* C2: when a call (or implicit call) of a registered label L has returned,
\* the current label index is what it was before the call, and a body of
\* plain statements has been executed in order, each statement once.
C2_CallReturnsToCaller ==
    (last_ret.label # 0 /\ last_ret.depth > 1)
    => /\ last_ret.after = last_ret.cur0
       /\ (\A k \in last_ret.first..(last_ret.end - 1) :
              ast[k].type \in {"ATTR", "VAR_ASSIGN", "COMMAND", "CALL"})
          => last_ret.seen = [k \in 1..(last_ret.end - last_ret.first)
                                 |-> last_ret.first + k - 1]

C4_SlotIsChildCode ==
    /\ (last_cmd.spawned /\ last_cmd.child.exited)
       => last_exit_code = last_cmd.child.code
    /\ (\A i \in DOMAIN spawned : spawned[i] = 0) => last_exit_code = 0

\* C5: a spawned command with #expect(N) and no #ignorefail succeeds
\* exactly when the child's exit code is N, under a shell or not, and a
\* mismatch stops the run with a RuntimeError.
C5_ExpectExact ==
    (last_cmd.spawned /\ last_cmd.attrs.has_expect /\ ~last_cmd.attrs.ignore_fail
     /\ last_cmd.child.exited)
    => /\ last_cmd.success <=> last_cmd.child.code = last_cmd.attrs.expect_code
       /\ ~last_cmd.success => status = "fail" /\ error.type = "RUNTIME"

\* C6: a spawned command with #ignorefail lets the run go on whatever its
\* exit code, and the last-exit-code slot holds the child's code after it.
C6_IgnoreFailKeepsCode ==
    (last_cmd.spawned /\ last_cmd.attrs.ignore_fail)
    => /\ last_cmd.success
       /\ last_cmd.child.exited => last_exit_code = last_cmd.child.code

\* C7: after a command with #cwd(P) the working directory is the one before
\* it, on every path: dry-run, success, failure, a directory that does not
\* exist.
C7_CwdRestored ==
    (last_cmd.idx # 0 /\ last_cmd.attrs.cwd # NULL)
    => last_cmd.cwd_after = last_cmd.cwd_before /\ cwd = last_cmd.cwd_before
\* a spawned command under #cwd(/tmp) that failed the run
C7_Witness ==
    /\ last_cmd.spawned /\ last_cmd.attrs.cwd = "/tmp"
    /\ ~last_cmd.success /\ status = "fail"

\* C8: a command statement carrying #once is spawned at most once in a run.
C8_OnceAtMostOnce ==
    \A i \in DOMAIN spawned :
        (last_cmd.idx = i /\ last_cmd.attrs.once) => spawned[i] <= 1

\* C9: after a spawned command with #save(stdout, V) or #save(stderr, V),
\* V is in the store and is a String holding the child's output, under a
\* shell or not.
C9_SaveStoresOutput ==
    (last_cmd.spawned /\ last_cmd.attrs.save_var # NULL
     /\ last_cmd.attrs.save_stream \in {"stdout", "stderr"})
    => last_cmd.saved = StrV(last_cmd.out)

\* C10: in a dry run no child process is started, ${#exec(...)} included,
\* and every command reached is printed and succeeds.
C10_DryRunSpawnsNothing ==
    dry_run => /\ nchildren = 0
               /\ last_cmd.idx # 0 => last_cmd.dry /\ last_cmd.success

\* C11: when execute is given a default shell and the script applies no
\* #shell attribute, every spawned command runs through that shell.
C11_DefaultShellUsed ==
    (default_shell # NULL /\ last_cmd.spawned
     /\ \A i \in 1..Len(ast) : ~(ast[i].type = "ATTR" /\ ast[i].name = "shell"))
    => last_cmd.use_shell = default_shell

\* C12: for a command with at most one #shell attribute: without one it
\* runs under the global slot and leaves it; #shell(NAME) is used for this
\* command and leaves the slot; #shell(NAME, global) sets the slot;
\* #shell(default) bypasses any shell and leaves the slot;
\* #shell(default, global) bypasses and clears the slot.  Nothing else
\* writes the slot.
C12_ShellResolution ==
    LET S == {k \in 1..Len(last_cmd.pend) : ast[last_cmd.pend[k]].name = "shell"}
        before == last_cmd.gshell_before
    IN
    /\ last_cmd.idx = 0 => global_shell = NULL
    /\ (last_cmd.idx # 0 /\ S = {})
       => last_cmd.use_shell = before /\ global_shell = before
    /\ (last_cmd.idx # 0 /\ Cardinality(S) = 1)
       => LET p == ast[last_cmd.pend[CHOOSE k \in S : TRUE]].params
              global == Len(p) > 1 /\ p[2] = "global"
          IN  /\ Len(p) > 0
              /\ IF p[1] = "default"
                 THEN /\ last_cmd.use_shell = NULL
                      /\ global_shell = IF global THEN NULL ELSE before
                 ELSE IF global
                 THEN global_shell = p[1] /\ last_cmd.use_shell = p[1]
                 ELSE last_cmd.use_shell = p[1] /\ global_shell = before
\* a plain command after a local #shell and a #shell(default) runs under
\* the global shell set three commands earlier
C12_Witness ==
    /\ ast = ProgShell /\ last_cmd.spawned
    /\ ast[last_cmd.idx].line_number = 7
    /\ last_cmd.use_shell = "sh" /\ global_shell = "sh"

\* C13: a variable assigned from a lone ${#exec(...)} holds the String of
\* the command's output, and such an assignment does not fail for want of
\* a variable named like the output.
C13_ExecAssignStoresOutput ==
    \A i \in 1..Len(ast) :
        (ast[i].type = "VAR_ASSIGN" /\ Len(ast[i].tpl) = 1 /\ ast[i].tpl[1].k = "exec")
        => /\ last_write[ast[i].name] # Unset
              => last_write[ast[i].name] = StrV(ast[i].tpl[1].s)
           /\ ~(error.message = "Undefined variable"
                /\ error.line_number = ast[i].line_number)

\* C14: a named top-level label right after a conditional attribute that
\* is false when the labels are registered is not in the label table; no
\* command of its body is spawned when every label of its name is guarded
\* out; a call, goto or command-line invocation of such a name fails with
\* RuntimeError Unknown label (from the command line: when the labels that
\* are registered do not clash); and a later label of the same name whose
\* guard holds is registered, without a duplicate error.
C14_GuardedLabelUnregistered ==
    [][
    LET fs0 == DisableAll(EnableAll(<<>>, cli_enable), cli_disable)
        Named(i) == TopLevelLabel(ast[i]) /\ ast[i].name # ""
        Out(i) == /\ Named(i) /\ i > 1 /\ ast[i-1].type = "ATTR"
                  /\ is_conditional_attr(ast[i-1].name)
                  /\ ~check_conditional_attr(ast[i-1], fs0)
        Defs(n) == {i \in 1..Len(ast) : Named(i) /\ ast[i].name = n}
        Gone(n) == \A i \in Defs(n) : Out(i)
        \* no two labels that are registered share a name
        NoClash == \A i, j \in 1..Len(ast) :
                      (/\ Named(i) /\ Named(j) /\ ~Out(i) /\ ~Out(j)
                       /\ ast[i].name = ast[j].name) => i = j
        UnknownLabel == /\ status' = "fail" /\ error'.type = "RUNTIME"
                        /\ error'.message = "Unknown label"
                        /\ nchildren' = nchildren /\ vars' = vars
        Table ==
            /\ \A i \in 1..Len(ast) : Out(i) =>
                  /\ \A k \in 1..Len(labels) : labels[k].index # i
                  /\ Gone(ast[i].name) =>
                        \A b \in (i+1)..(find_label_end(ast, i) - 1) : spawned[b] = 0
            /\ \A i \in 1..Len(ast) :
                  (Named(i) /\ ~Out(i) /\ \A j \in Defs(ast[i].name) \ {i} : Out(j))
                  => /\ find_label_index(labels, ast[i].name) > 0
                     /\ labels[find_label_index(labels, ast[i].name)].index = i
                     /\ error.message # "Duplicate label"
    IN
    /\ Table'
    /\ (status = "init" /\ NoClash /\ label_arg # NULL /\ Gone(label_arg))
       => UnknownLabel
    /\ (ToExecStmt /\ ast[Top.i].type \in {"CALL", "GOTO"}
        /\ ~Skipped(ast[Top.i]) /\ Gone(ast[Top.i].name)) => UnknownLabel
    ]_vars_all
\* the second A was called and ran, then the call of B failed
C14_Witness ==
    /\ ast = ProgGuard /\ spawned[6] = 1 /\ spawned[3] = 0
    /\ status = "fail" /\ error.message = "Unknown label" /\ error.line_number = 14

\* C15: when two named top-level labels of one name are both registered
\* (neither is behind a false guard), execute fails with a RuntimeError
\* before any statement runs: nothing spawned, nothing assigned, exit 1.
C15_DuplicateLabelFatal ==
    LET fs0 == DisableAll(EnableAll(<<>>, cli_enable), cli_disable)
        Kept(i) == /\ TopLevelLabel(ast[i]) /\ ast[i].name # ""
                   /\ ~(i > 1 /\ ast[i-1].type = "ATTR"
                        /\ is_conditional_attr(ast[i-1].name)
                        /\ ~check_conditional_attr(ast[i-1], fs0))
    IN
    (status # "init"
     /\ \E i, j \in 1..Len(ast) : i < j /\ Kept(i) /\ Kept(j) /\ ast[i].name = ast[j].name)
    => /\ status = "fail" /\ ExitStatus = 1
       /\ error.type = "RUNTIME" /\ error.message = "Duplicate label"
       /\ nchildren = 0 /\ vars = <<>>
       /\ \A k \in 1..Len(ast) : spawned[k] = 0
       /\ last_cmd = NoCmd /\ features = fs0
\* ProgDup after execute has returned
C15_Witness ==
    /\ ast = ProgDup /\ status = "fail"
    /\ error = set_error("RUNTIME", "Duplicate label", 5)

\* C16: in the text of a command, $k and ${k} show the k-th argument after
\* `--` (k from 1), index 0 shows the program name, and an index beyond
\* the last argument shows nothing.
C16_ArgsFromOne ==
    last_cmd.idx # 0 =>
        \A i \in 1..Len(ast[last_cmd.idx].tpl) :
            LET part == ast[last_cmd.idx].tpl[i]
                k == ArgNo(part.s)
            IN  part.k \in {"arg", "argb"} =>
                    last_cmd.text[i].s = IF k = 0 THEN ProgramName
                                         ELSE IF k <= Len(args) THEN args[k]
                                         ELSE ""

\* C17: a command that ends with neither #ignorefail nor the exit code
\* wanted (#expect's, else 0) stops the run: execute returns false with
\* the error slot set, nothing runs afterwards, exit 1; and a run does not
\* stop on a command that ended as wanted.
C17_FailureStopsRun ==
    LET a == last_cmd.attrs
        wanted == IF a.has_expect THEN a.expect_code ELSE 0
        CmdFails == /\ last_cmd.spawned /\ ~a.ignore_fail
                    /\ last_cmd.child.exited /\ last_cmd.child.code # wanted
    IN
    /\ CmdFails => status = "fail" /\ has_error /\ stack = <<>> /\ ExitStatus = 1
    /\ status = "fail" => has_error /\ stack = <<>>
    /\ (status = "fail" /\ error.message \in {"Command failed", "Expected exit code"})
       => CmdFails \/ ~last_cmd.child.exited
    /\ status = "ok" => ExitStatus = 0

\* C18: once the parser has recorded a syntax error it produces no further
\* statement (none from a later line, and the statement sequence stays as it
\* is), main never hands the statements to execute, so nothing is spawned,
\* assigned or enabled, and the process exits 1
C18_ParseErrorStopsAll ==
    [][ has_error' =>
          /\ status' \in {"parsed", "fail"}
          /\ \A k \in 1..Len(ast') : ast'[k].line_number <= error'.line_number
          /\ has_error => (ast' = ast /\ error' = error /\ status' = "fail")
          /\ nchildren' = 0 /\ vars' = <<>> /\ features' = <<>>
          /\ status' = "fail" => ExitStatus' = 1 ]_vars_all
\* an error on a line that had already given a statement, with a line of
\* the file left unread, after main has returned
C18_Witness ==
    /\ has_error
    /\ status = "fail"
    /\ ast # <<>>
    /\ error.line_number < Len(lines)

\* C19: a command under #timeout(MS) whose child never exits on its own
\* eventually completes with a non-zero exit code: the interpreter does not
\* wait on it forever
C19_TimeoutEndsWait ==
    WaitsUnderTimeout ~> (status # "wait" /\ last_exit_code # 0)

\* C20: the label table is built by execute before any statement runs, holds
\* top-level labels only, and never changes afterwards; a call or goto that
\* is executed and names a registered label resolves to it (the call enters
\* the label, the goto moves to the label's statement) wherever the label
\* stands relative to it, and never fails as an unknown label
C20_LabelsFixedAndFound ==
    [][ /\ status = "init" => (labels = <<>> /\ stack = <<>> /\ nchildren = 0)
        /\ status # "init" => labels' = labels
        /\ \A k \in 1..Len(labels') :
              /\ TopLevelLabel(ast[labels'[k].index])
              /\ ast[labels'[k].index].name = labels'[k].name
        /\ (/\ ToExecStmt
            /\ ast[Top.i].type \in {"CALL", "GOTO"}
            /\ ~Skipped(ast[Top.i])
            /\ vars_all' # vars_all)
           => LET st == ast[Top.i]
                  R  == {k \in 1..Len(labels) : labels[k].name = st.name}
              IN  R # {} =>
                    /\ error' = error
                    /\ status' # "fail"
                    /\ st.type = "GOTO" =>
                         \E k \in R : /\ current_index' = labels[k].index
                                      /\ last_goto'.from = Top.i
                                      /\ last_goto'.target = labels[k].index
                    /\ st.type = "CALL" =>
                         \E k \in R : /\ Len(stack') = Len(stack) + 1
                                      /\ stack'[Len(stack')].kind = "rerun"
                                      /\ stack'[Len(stack')].label = k
      ]_vars_all
\* a run from the top level that reached the goto of A's body: the call of A
\* on line 1 found the label defined below it, the call of B inside A found
\* the label defined above it, and so did the goto
C20_Witness ==
    /\ ast = ProgOrder /\ label_arg = NULL
    /\ last_goto.from = 6 /\ last_goto.target = 2

\* C21: once a walker has passed a statement that is not an Attr (a
\* command, assignment, call, goto, label, #if, #else, #endif, or a call or
\* goto the re-run steps over) and the run goes on, the pending buffer is
\* empty
C21_BufferEmptyAfterStatement ==
    [][ (/\ AtStmt
         /\ ast[Top.i].type # "ATTR"
         /\ (Top.kind = "range" \/ ast[Top.i].indent_level = 0)
         /\ vars_all' # vars_all
         /\ status' = "run")
        => pending_attrs' = <<>> ]_vars_all

\* C22: a statement other than an Attr or a Label that is dispatched while a
\* pending conditional attribute is false spawns nothing, changes no store,
\* transfers no control and clears the buffer, and the walker goes on with
\* the next statement of its range, in a label body as at the top level
C22_SkippedHasNoEffect ==
    [][ (/\ ToExecStmt
         /\ ast[Top.i].type \notin {"ATTR", "LABEL"}
         /\ Skipped(ast[Top.i])
         /\ vars_all' # vars_all)
        => /\ pending_attrs' = <<>>
           /\ UNCHANGED <<store, nchildren, spawned, error, labels>>
           /\ status' = "run"
           /\ current_label_index' = current_label_index
           /\ Len(stack') = Len(stack)
           /\ stack'[Len(stack')].i = Top.i + 1 ]_vars_all

\* C23: when a statement is dispatched, no attribute in the pending buffer
\* comes from a label body or #if branch that has ended: every pending
\* attribute stands before the statement and is not indented more deeply
\* than it, so an Attr left at the end of a body or branch neither applies
\* to nor gates the next statement of the caller or the enclosing range
C23_NoAttrFromEndedRange ==
    (ToExecStmt /\ ast[Top.i].type # "ATTR")
    => \A k \in 1..Len(pending_attrs) :
          /\ pending_attrs[k] < Top.i
          /\ ast[pending_attrs[k]].indent_level <= ast[Top.i].indent_level

\* the #else and #endif that belong to an #if, as C24 reads them: the
\* first #else met at the #if's own depth and the #endif that closes it
RECURSIVE IfMatch(_, _, _, _, _, _)
IfMatch(a, ind, j, end, depth, else_idx) ==
    IF j >= end
    THEN [else_idx |-> else_idx, endif_idx |-> 0]
    ELSE IF a[j].indent_level # ind
    THEN IfMatch(a, ind, j+1, end, depth, else_idx)
    ELSE IF a[j].type = "IF"
    THEN IfMatch(a, ind, j+1, end, depth+1, else_idx)
    ELSE IF a[j].type = "ENDIF" /\ depth = 1
    THEN [else_idx |-> else_idx, endif_idx |-> j]
    ELSE IF a[j].type = "ENDIF"
    THEN IfMatch(a, ind, j+1, end, depth-1, else_idx)
    ELSE IF a[j].type = "ELSE" /\ depth = 1 /\ else_idx = 0
    THEN IfMatch(a, ind, j+1, end, depth, j)
    ELSE IfMatch(a, ind, j+1, end, depth, else_idx)

\* C24: an #if reached by a walker runs exactly one branch: with a true
\* condition the statements from the #if to its #else (to the #endif when
\* there is none), with a false one those from the #else to the #endif
\* (none without #else), and the walker goes on after the #endif; without
\* a matching #endif the step is an error and no branch is entered
C24_ExactlyOneBranch ==
    [][ (/\ AtStmt /\ ast[Top.i].type = "IF"
         /\ (Top.kind = "range" \/ ast[Top.i].indent_level = 0)
         /\ vars_all' # vars_all)
        => LET i == Top.i
               n == Len(stack)
               c == eval_condition(ast[i].name, features, vars)
               m == IfMatch(ast, ast[i].indent_level, i + 1, Top.end, 1, 0)
               bs == IF c THEN i + 1 ELSE m.else_idx + 1
               be == IF c /\ m.else_idx # 0 THEN m.else_idx ELSE m.endif_idx
           IN IF m.endif_idx = 0
              THEN status' = "fail" /\ has_error' /\ stack' = <<>>
              ELSE /\ status' = "run" /\ error' = error
                   /\ stack'[n].i = m.endif_idx + 1
                   /\ IF c \/ m.else_idx # 0
                      THEN /\ Len(stack') = n + 1
                           /\ stack'[n + 1].kind = "range"
                           /\ stack'[n + 1].i = bs
                           /\ stack'[n + 1].end = be
                      ELSE Len(stack') = n ]_vars_all

\* each conditional predicate in its two spellings: the text of an #if
\* condition and the attribute statement the parser makes of the same words
Pred(cond, name, params) == [cond |-> cond, attr |-> AttrS(0, 1, name, params)]
Predicates ==
    { Pred("#windows", "windows", <<>>), Pred("#win32", "win32", <<>>),
      Pred("#linux", "linux", <<>>), Pred("#macos", "macos", <<>>),
      Pred("#darwin", "darwin", <<>>), Pred("#unix", "unix", <<>>),
      Pred("#arch(x86_64)", "arch", <<"x86_64">>),
      Pred("#arch(arm64)", "arch", <<"arm64">>),
      Pred("#distro(ubuntu)", "distro", <<"ubuntu">>),
      Pred("#distro(arch)", "distro", <<"arch">>),
      Pred("#feature(f)", "feature", <<"f">>),
      Pred("#feature(g)", "feature", <<"g">>),
      Pred("#env(HOME)", "env", <<"HOME">>),
      Pred("#env(NOPE)", "env", <<"NOPE">>),
      Pred("#env(HOME, /root)", "env", <<"HOME", "/root">>),
      Pred("#exists(/tmp)", "exists", <<"/tmp">>),
      Pred("#exists(/nowhere)", "exists", <<"/nowhere">>) }

\* C25: in every state of the feature store, the variable store and the
\* environment, each conditional predicate has the same truth value as an
\* #if condition and as a conditional attribute
C25_SameTruthBothWays ==
    \A p \in Predicates :
        eval_condition(p.cond, features, vars)
            = check_conditional_attr(p.attr, features)

\* the statement at i stands directly behind a #feature attribute whose
\* feature is in the store fs
FeatureGuardOn(i, fs) ==
    /\ i > 1 /\ ast[i-1].type = "ATTR" /\ ast[i-1].name = "feature"
    /\ Len(ast[i-1].params) > 0 /\ feature_exists(fs, ast[i-1].params[1])

\* C26: a conditional attribute is evaluated against the features as they
\* are when the guarded statement or label is reached: a command behind
\* #feature(f), reached with f enabled and only that attribute pending, is
\* run, and a call or goto naming a top-level label behind #feature(f),
\* made while f is enabled, finds the label
C26_GuardSeesCurrentFeatures ==
    [][ (ToExecStmt /\ vars_all' # vars_all)
        => LET i == Top.i  st == ast[i] IN
           /\ (/\ st.type = "COMMAND" /\ FeatureGuardOn(i, features)
               /\ pending_attrs = <<i - 1>>)
              => last_cmd'.idx = i
           /\ (/\ st.type \in {"CALL", "GOTO"} /\ ~Skipped(st)
               /\ \E j \in 1..Len(ast) :
                     /\ TopLevelLabel(ast[j]) /\ ast[j].name = st.name
                     /\ FeatureGuardOn(j, features))
              => status' # "fail" ]_vars_all

\* C27: while the top level is being run again on entry to a label, no
\* Call and no Goto statement is executed, those inside top-level #if
\* branches included
C27_RerunRunsNoCallGoto ==
    [][ (/\ ToExecStmt /\ ast[Top.i].type \in {"CALL", "GOTO"}
         /\ ~Skipped(ast[Top.i]) /\ vars_all' # vars_all)
        => \A k \in 1..Len(stack) : stack[k].kind # "rerun" ]_vars_all

\* statement i lies in the body of the named top-level label at j
InBodyOf(i, j) ==
    /\ TopLevelLabel(ast[j]) /\ ast[j].name # ""
    /\ j < i /\ i < find_label_end(ast, j)

\* C28: a statement in the body of a named top-level label is executed
\* only while that label is being invoked (by a call, a goto or an implicit
\* call), never by the top-level walk or the re-run passing over the
\* definition, also when the label is defined inside a top-level #if
C28_BodyRunsOnlyWhenInvoked ==
    [][ (ToExecStmt /\ vars_all' # vars_all)
        => \A j \in 1..Len(ast) :
              InBodyOf(Top.i, j)
              => \E k \in 1..Len(stack) :
                    /\ stack[k].kind = "range" /\ stack[k].ret = "label"
                    /\ labels[stack[k].label].index = j ]_vars_all

\* the walk the statement at hand belongs to: the innermost frame that is
\* a top-level walk, a re-run or a label's body (#if branches and anonymous
\* blocks belong to the walk that entered them)
Owner ==
    CHOOSE k \in 1..Len(stack) :
        /\ stack[k].kind \in {"top", "rerun"} \/ stack[k].ret = "label"
        /\ \A m \in (k+1)..Len(stack) :
              stack[m].kind = "range" /\ stack[m].ret # "label"
InLabelBody == stack[Owner].kind = "range"

\* C29: a command whose text is a registered label name invokes the label
\* exactly when it is executed inside a label body; executed by the
\* top-level walk or by the re-run it is spawned as a command
C29_ImplicitCallOnlyInBody ==
    [][ (/\ ToExecStmt /\ ast[Top.i].type = "COMMAND" /\ ~Skipped(ast[Top.i])
         /\ CmdLabel(labels, ast[Top.i].tpl) > 0 /\ vars_all' # vars_all)
        => IF InLabelBody
           THEN /\ Len(stack') = Len(stack) + 1
                /\ stack'[Len(stack')].kind = "rerun"
                /\ last_cmd' = last_cmd
           ELSE /\ last_cmd'.idx = Top.i
                /\ Len(stack') <= Len(stack) ]_vars_all

\* C30: every statement the parser has produced, attributes included, has
\* an indent level of at least 0 and carries the number of a physical line
\* of the file, counted from 1, and line numbers never decrease along the
\* statement sequence
C30_LineNumbersOfSource ==
    status \in {"parse", "parsed"}
    => /\ \A k \in 1..Len(ast) :
             /\ ast[k].indent_level >= 0
             /\ ast[k].line_number >= 1
             /\ ast[k].line_number <= Len(lines)
       /\ \A k \in 2..Len(ast) : ast[k-1].line_number <= ast[k].line_number

\* C31: a line `name[index] = value` is parsed as one IndexAssign carrying
\* the name, the raw index and the raw value, and a line `name = value`
\* as a VarAssign
C31_IndexAssignParsed ==
    [][ (status = "parse" /\ line_i < Len(lines) /\ vars_all' # vars_all)
        => LET l == lines[line_i + 1]
               s == ast'[Len(ast')]
           IN /\ l = <<"a", "[", "0", "]", "=", "1">>
                 => /\ Len(ast') = Len(ast) + 1
                    /\ s.type = "INDEX_ASSIGN" /\ s.name = <<"a">>
                    /\ s.params = <<(<<"0">>)>> /\ s.tpl = <<"1">>
              /\ l = <<"x", "=", "1">>
                 => /\ Len(ast') = Len(ast) + 1
                    /\ s.type = "VAR_ASSIGN" /\ s.name = <<"x">>
                    /\ s.tpl = <<"1">> ]_vars_all

\* a statement without its line number
Shape(s) == [type |-> s.type, name |-> s.name, params |-> s.params,
             tpl |-> s.tpl, indent_level |-> s.indent_level]

\* C32: a line indented with one tab yields the same statement (type,
\* fields, indent level) as the same line indented with four blanks
C32_TabIsFourBlanks ==
    [][ (/\ status = "parse" /\ line_i < Len(lines) /\ vars_all' # vars_all
         /\ lines[line_i + 1] = <<"\t", "l", "s", " ", "-", "a">>)
        => LET want == ParseLine(<< <<" ", " ", " ", " ", "l", "s", " ", "-", "a">> >>,
                                 0, NoError).stmts
           IN /\ Len(ast') = Len(ast) + Len(want)
              /\ \A k \in 1..Len(want) :
                    Shape(ast'[Len(ast) + k]) = Shape(want[k]) ]_vars_all

\* C33: executing the statement of the line `a[0] = 5` while a holds an
\* Array sets element 0 of a to the parsed value 5 and leaves every other
\* element and every other variable as they were; nothing else happens
C33_IndexAssignSetsElement ==
    [][ (/\ ToExecStmt /\ ~Skipped(ast[Top.i])
         /\ ast[Top.i].type \in {"COMMAND", "INDEX_ASSIGN"}
         /\ ast[Top.i].tpl = <<Lit("a[0] = 5")>>
         /\ vars_exists(vars, "a") /\ vars_get(vars, "a").t = "arr"
         /\ vars_all' # vars_all)
        => /\ vars' = vars_set(vars, "a",
                        ArrV([vars_get(vars, "a").v EXCEPT ![1] = NumV("5")]))
           /\ nchildren' = nchildren /\ error' = error ]_vars_all

\* C40: a line that is neither blank nor a comment yields at least one
\* statement in the parser's output or a recorded error; it is never
\* dropped without a trace
C40_NoLineDropped ==
    [][ (/\ status = "parse" /\ line_i < Len(lines)
         /\ ~is_empty_or_comment(lines[line_i + 1])
         /\ vars_all' # vars_all)
        => (Len(ast') > Len(ast) \/ has_error') ]_vars_all

\* C38: whenever a step sets the error slot, the line number recorded is
\* at least 1 and is the source line of the statement that failed: of the
\* statement being executed, and for a duplicate label of a top-level
\* label of the script
C38_ErrorLineIsSourceLine ==
    [][ (has_error' /\ error' # error)
        => /\ error'.line_number >= 1
           /\ status = "run" => error'.line_number = ast[Top.i].line_number
           /\ status = "init"
              => \E k \in 1..Len(ast) :
                    /\ TopLevelLabel(ast[k])
                    /\ ast[k].line_number = error'.line_number ]_vars_all

\* C39: the error slot is set exactly when execution fails: a run that
\* ended well has an empty slot, a run that failed has an error in it, and
\* while statements are still being executed the slot is empty
C39_ErrorIffFailure ==
    /\ status = "ok" => ~has_error
    /\ status = "fail" => has_error
    /\ status = "run" => ~has_error

\* the feature names that occur
FeatureNames == {"f", "g"}
InSeq(s, x) == \E i \in 1..Len(s) : s[i] = x

\* C37: the feature store never holds a name twice; after the seeding in
\* execute a name is enabled exactly when it was given with +F and not
\* with -F (a -F of a name that is not enabled changes nothing); #features
\* enables its names and leaves the others as they were, also when a name
\* is enabled already; no other step touches the store
C37_FeatureStoreOps ==
    [][ /\ \A i, j \in 1..Len(features') : features'[i] = features'[j] => i = j
        /\ IF status = "init"
           THEN \A f \in FeatureNames :
                   feature_exists(features', f)
                      <=> (InSeq(cli_enable, f) /\ ~InSeq(cli_disable, f))
           ELSE IF ToExecStmt /\ ast[Top.i].type = "ATTR"
                              /\ ast[Top.i].name = "features"
           THEN \A f \in FeatureNames :
                   feature_exists(features', f)
                      <=> (feature_exists(features, f) \/ InSeq(ast[Top.i].params, f))
           ELSE features' = features ]_vars_all
\* a run seeded with +f and -f executes its first statement with f disabled
C37_Witness ==
    /\ cli_enable = <<"f">> /\ cli_disable = <<"f">>
    /\ status = "run" /\ stack # <<>> /\ Top.i = 1
    /\ ~feature_exists(features, "f")

\* C35: interpolating the template of a command or an assignment writes
\* none of the resources it reads. When it fails (the template names an
\* undefined variable) the error slot is set, the statement does nothing
\* with a partial text and the variable store, the feature store, the
\* arguments, the last exit code and the global shell are as before; when
\* it succeeds for a command that is only printed (dry run, no attributes)
\* they are as before too
C35_InterpolationOnlyReads ==
    [][ (/\ ToExecStmt /\ ~Skipped(ast[Top.i])
         /\ ast[Top.i].type \in {"COMMAND", "VAR_ASSIGN"}
         /\ vars_all' # vars_all)
        => LET st == ast[Top.i]
               fails == \E i \in 1..Len(st.tpl) : ~PartOk(st.tpl[i], vars)
           IN /\ fails
                 => /\ has_error' /\ status' = "fail"
                    /\ error'.line_number = st.line_number
                    /\ UNCHANGED <<vars, features, args, last_exit_code,
                                   global_shell, spawned, last_cmd>>
              /\ (~fails /\ dry_run /\ st.type = "COMMAND" /\ pending_attrs = <<>>)
                 => /\ error' = error
                    /\ UNCHANGED <<vars, features, args, last_exit_code,
                                   global_shell>> ]_vars_all
\* a run stopped by the interpolation of a template that names a variable
\* the store does not hold
C35_Witness ==
    /\ status = "fail" /\ has_error
    /\ current_index \in 1..Len(ast)
    /\ ast[current_index].type \in {"COMMAND", "VAR_ASSIGN"}
    /\ error.line_number = ast[current_index].line_number
    /\ \E i \in 1..Len(ast[current_index].tpl) :
          /\ ast[current_index].tpl[i].k = "var"
          /\ ~vars_exists(vars, ast[current_index].tpl[i].s)
    /\ vars # <<>>

\* ==================================================== the store's objects
\* malloc: a block that is not in use (the lowest one, addresses being
\* opaque to the program)
malloc(h) ==
    CHOOSE p \in Addrs : h[p].t = "free" /\ \A q \in 1..(p-1) : h[q].t # "free"
Room(h) == Cardinality({p \in Addrs : h[p].t = "free"})
Obj(h, p) == [heap |-> h, addr |-> p]
\* var_new_number / var_new_string / var_new_bool (vars.c:262-288)
var_new(h, t, s) ==
    LET p == malloc(h) IN Obj([h EXCEPT ![p] = Cell(t, s, <<>>)], p)
\* var_new_array (vars.c:290-298)
var_new_array(h) ==
    LET p == malloc(h) IN Obj([h EXCEPT ![p] = Cell("arr", "", <<>>)], p)

\* a clone that is the object itself
var_clone_same(h, p) == Obj(h, p)
\* var_clone (vars.c:348-371) and var_array_push (vars.c:300-316): a
\* scalar is made anew, an Array is made anew and every item pushed, and
\* push stores a clone of the item it is given
RECURSIVE var_clone(_, _)
RECURSIVE ClonePush(_, _, _, _)
var_clone(h, p) ==
    IF h[p].t # "arr" THEN var_new(h, h[p].t, h[p].s)
    ELSE LET a == var_new_array(h) IN ClonePush(a.heap, a.addr, h[p].items, 1)
var_array_push(h, arr, item) ==
    LET c == var_clone(h, item)
    IN  [c.heap EXCEPT ![arr].items = Append(@, c.addr)]
ClonePush(h, arr, items, i) ==
    IF i > Len(items) THEN Obj(h, arr)
    ELSE ClonePush(var_array_push(h, arr, items[i]), arr, items, i + 1)

\* var_free (vars.c:330-346): the object and, for an Array, its items
RECURSIVE var_free(_, _)
RECURSIVE FreeItems(_, _, _)
var_free(h, p) ==
    IF h[p].t = "arr" THEN FreeItems([h EXCEPT ![p] = FreeCell], h[p].items, 1)
    ELSE [h EXCEPT ![p] = FreeCell]
FreeItems(h, items, i) ==
    IF i > Len(items) THEN h ELSE FreeItems(var_free(h, items[i]), items, i + 1)

\* the value an address stands for: the object with its items in place of
\* their addresses
RECURSIVE Deref(_, _)
Deref(h, p) ==
    [t |-> h[p].t, s |-> h[p].s,
     items |-> [i \in 1..Len(h[p].items) |-> Deref(h, h[p].items[i])]]

\* the values written in the texts below
Num1 == Cell("num", "1", <<>>)
Num2 == Cell("num", "2", <<>>)
Nested == Cell("arr", "", <<Cell("arr", "", <<Num1>>), Num2>>)
\* the value a literal text of the right-hand sides denotes
Literal(text) ==
    CASE text = "1" -> Num1 [] text = "2" -> Num2 [] OTHER -> Nested
RECURSIVE Cells(_)
RECURSIVE CellsOf(_, _)
Cells(v) == 1 + CellsOf(v.items, 1)
CellsOf(items, i) ==
    IF i > Len(items) THEN 0 ELSE Cells(items[i]) + CellsOf(items, i + 1)

\* parse_value (vars.c:1113-1357) with its objects: a scalar literal is one
\* new object; an array literal is a new Array to which each element,
\* parsed into an object of its own, is pushed (cloned) and then freed
\* (:1199-1250); an identifier gives a clone of the variable's value, or
\* fails when the store has no such variable (:1322-1354)
RECURSIVE ParseLiteral(_, _)
RECURSIVE ParseItems(_, _, _, _)
ParseLiteral(h, v) ==
    IF v.t # "arr" THEN var_new(h, v.t, v.s)
    ELSE LET a == var_new_array(h) IN ParseItems(a.heap, a.addr, v.items, 1)
ParseItems(h, arr, items, i) ==
    IF i > Len(items) THEN Obj(h, arr)
    ELSE LET e == ParseLiteral(h, items[i])
         IN  ParseItems(var_free(var_array_push(e.heap, arr, e.addr), e.addr),
                        arr, items, i + 1)
parse_value_obj(h, vs, text) ==
    IF text \in {"a", "b"}
    THEN IF vars_exists(vs, text)
         THEN [ok |-> TRUE, obj |-> var_clone(h, vars_get(vs, text))]
         ELSE [ok |-> FALSE, obj |-> Obj(h, 0)]
    ELSE [ok |-> TRUE, obj |-> ParseLiteral(h, Literal(text))]

\* a set that always adds an entry
vars_set_obj_add(vs, h, name, p) ==
    [vars |-> Append(vs, [key |-> name, value |-> p]), heap |-> h]
\* vars_set (vars.c:214-245) with its objects: the old value of an existing
\* key is freed and the new object put in its place, a new key is added at
\* the end
vars_set_obj(vs, h, name, p) ==
    LET idx == vars_find_index(vs, name) IN
    IF idx > 0
    THEN [vars |-> [vs EXCEPT ![idx].value = p], heap |-> var_free(h, vs[idx].value)]
    ELSE [vars |-> Append(vs, [key |-> name, value |-> p]), heap |-> h]
\* vars_delete (vars.c:247-260): false for an absent key; else the value is
\* freed and the later entries move up
vars_delete(vs, h, name) ==
    LET idx == vars_find_index(vs, name) IN
    IF idx = 0 THEN [ok |-> FALSE, vars |-> vs, heap |-> h]
    ELSE [ok |-> TRUE,
          vars |-> SubSeq(vs, 1, idx - 1) \o SubSeq(vs, idx + 1, Len(vs)),
          heap |-> var_free(h, vs[idx].value)]

\* what the store's operations leave alone
beyond_store == <<lines, line_i, ast, label_arg, dry_run, default_shell,
                  cli_enable, cli_disable, args, labels, stack, current_index,
                  current_label_index, pending_attrs, features, last_exit_code,
                  global_shell, cwd, hist>>
\* the store after vars_init (vars.c:170-177), nothing allocated
InitStore ==
    /\ lines = <<>> /\ line_i = 0 /\ ast = <<>>
    /\ label_arg = NULL /\ dry_run = FALSE /\ default_shell = NULL
    /\ cli_enable = <<>> /\ cli_disable = <<>> /\ args = <<>>
    /\ status = "store"
    /\ labels = <<>> /\ stack = <<>>
    /\ current_index = 1 /\ current_label_index = 0
    /\ pending_attrs = <<>>
    /\ vars = <<>> /\ features = <<>>
    /\ last_exit_code = 0 /\ global_shell = NULL
    /\ error = NoError
    /\ cwd = "/home/u"
    /\ nchildren = 0 /\ spawned = <<>>
    /\ last_cmd = NoCmd /\ last_goto = NoGoto /\ last_ret = NoRet
    /\ last_write = [n \in VarNames |-> Unset]
    /\ heap = EmptyHeap
    /\ last_op = NoOp

\* the right-hand sides written for each variable: array literals are
\* written for a only, so an Array in b is a copy of a
TextsFor(name) == IF name = "a" THEN {"1", "[[1], 2]", "b"}
                  ELSE {"2", "a"}
\* cells an assignment needs before it frees anything
Need(vs, h, text) ==
    IF text \in {"a", "b"}
    THEN IF vars_exists(vs, text) THEN Cells(Deref(h, vars_get(vs, text))) ELSE 0
    ELSE Cells(Literal(text)) + 1

\* an assignment name = text as exec_stmt runs it (exec.c:784-798), the
\* text holding nothing to interpolate: parse_value, then vars_set; a
\* failed parse_value ends the run
StoreSet(name, text) ==
    /\ status = "store"
    /\ Room(heap) >= Need(vars, heap, text)
    /\ LET pv == parse_value_obj(heap, vars, text) IN
       IF ~pv.ok
       THEN /\ error' = set_error("RUNTIME", "Undefined variable", 1)
            /\ status' = "fail"
            /\ last_op' = [op |-> "set", name |-> name, text |-> text, ok |-> FALSE]
            /\ UNCHANGED <<vars, heap>>
       ELSE LET r == vars_set_obj(vars, pv.obj.heap, name, pv.obj.addr) IN
            /\ vars' = r.vars
            /\ heap' = r.heap
            /\ last_op' = [op |-> "set", name |-> name, text |-> text, ok |-> TRUE]
            /\ UNCHANGED <<error, status>>
    /\ UNCHANGED beyond_store

\* vars_delete called with a name (vars.c:247-260)
StoreDelete(name) ==
    /\ status = "store"
    /\ LET r == vars_delete(vars, heap, name) IN
       /\ vars' = r.vars
       /\ heap' = r.heap
       /\ last_op' = [op |-> "delete", name |-> name, text |-> "", ok |-> r.ok]
    /\ UNCHANGED <<error, status, beyond_store>>

\* a statement INDEX_ASSIGN name[0] = text as exec_stmt runs it
\* (exec.c:800-847), text being a literal and the index within the Array:
\* the variable is looked up, the value parsed, the old item freed and the
\* new object put in its place; an absent or non-Array variable ends the run
StoreIndexAssign(name, text) ==
    /\ status = "store"
    /\ Room(heap) >= Need(vars, heap, text)
    /\ IF ~vars_exists(vars, name)
       THEN /\ error' = set_error("RUNTIME", "Undefined variable", 1)
            /\ status' = "fail"
            /\ last_op' = [op |-> "index", name |-> name, text |-> text, ok |-> FALSE]
            /\ UNCHANGED <<vars, heap>>
       ELSE LET var == vars_get(vars, name)
                pv == parse_value_obj(heap, vars, text)
            IN  IF heap[var].t = "arr"
                THEN /\ heap' = [var_free(pv.obj.heap, heap[var].items[1])
                                    EXCEPT ![var].items[1] = pv.obj.addr]
                     /\ last_op' = [op |-> "index", name |-> name, text |-> text, ok |-> TRUE]
                     /\ UNCHANGED <<vars, error, status>>
                ELSE /\ error' = set_error("RUNTIME", "Cannot index assign", 1)
                     /\ status' = "fail"
                     /\ last_op' = [op |-> "index", name |-> name, text |-> text, ok |-> FALSE]
                     /\ UNCHANGED <<vars, heap>>
    /\ UNCHANGED beyond_store

StoreNames == {"a", "b"}
NextStore ==
    \/ \E name \in StoreNames : \E text \in TextsFor(name) : StoreSet(name, text)
    \/ \E name \in StoreNames : StoreDelete(name)
    \/ \E name \in StoreNames : StoreIndexAssign(name, "2")

SpecStore == InitStore /\ [][NextStore]_vars_all

\* the value a variable of the store holds
ValueOf(vs, h, name) == Deref(h, vars_get(vs, name))
\* the objects a value is made of
RECURSIVE Reach(_, _)
Reach(h, p) ==
    {p} \cup UNION {Reach(h, h[p].items[i]) : i \in 1..Len(h[p].items)}

\* C34: an assignment stores a deep copy: after b = a the value of b is the
\* value a had; every operation on one variable (an assignment, an element
\* overwritten, a delete) leaves the value of every other variable as it
\* was; and no object is part of the values of two variables
C34_AssignmentCopiesDeep ==
    [][ /\ \A n \in StoreNames :
             (n # last_op'.name /\ vars_exists(vars, n))
                 => /\ vars_exists(vars', n)
                    /\ ValueOf(vars', heap', n) = ValueOf(vars, heap, n)
        /\ (last_op'.op = "set" /\ last_op'.ok /\ last_op'.text \in StoreNames)
             => ValueOf(vars', heap', last_op'.name)
                  = ValueOf(vars, heap, last_op'.text)
        /\ \A i, j \in 1..Len(vars') :
             i # j => Reach(heap', vars'[i].value) \cap Reach(heap', vars'[j].value) = {}
      ]_vars_all
\* b, a copy of the nested Array of a, has had its first element
\* overwritten while a still holds the nested Array
C34_Witness ==
    /\ last_op.op = "index" /\ last_op.name = "b" /\ last_op.ok
    /\ vars_exists(vars, "a") /\ vars_exists(vars, "b")
    /\ ValueOf(vars, heap, "a") = Nested
    /\ ValueOf(vars, heap, "b") = Cell("arr", "", <<Num2, Num2>>)

\* the names of the store in the order it is iterated in
Keys(vs) == [i \in 1..Len(vs) |-> vs[i].key]
\* the sequence without its element at idx
Without(s, idx) == SubSeq(s, 1, idx - 1) \o SubSeq(s, idx + 1, Len(s))
\* the value an assignment of the text is to store
Assigned(vs, h, text) ==
    IF text \in StoreNames THEN ValueOf(vs, h, text) ELSE Literal(text)

\* C36: the store holds each name at most once; a set of a name it holds
\* puts the value in the name's place and leaves the order and every other
\* variable as they were, a set of a new name adds it after all others, and
\* a get after the set gives the value set; a delete of a name it holds
\* removes that name and keeps the order of the others, a delete of an
\* absent name returns false and changes nothing
C36_StoreSetAndDelete ==
    [][ /\ \A i, j \in 1..Len(vars') : i # j => vars'[i].key # vars'[j].key
        /\ (last_op'.op = "set" /\ last_op'.ok) =>
             /\ Keys(vars') = IF vars_exists(vars, last_op'.name) THEN Keys(vars)
                              ELSE Append(Keys(vars), last_op'.name)
             /\ ValueOf(vars', heap', last_op'.name)
                  = Assigned(vars, heap, last_op'.text)
             /\ \A n \in StoreNames \ {last_op'.name} :
                  vars_exists(vars, n)
                      => ValueOf(vars', heap', n) = ValueOf(vars, heap, n)
        /\ (last_op'.op = "delete" /\ ~vars_exists(vars, last_op'.name)) =>
             /\ ~last_op'.ok
             /\ vars' = vars /\ heap' = heap
        /\ (last_op'.op = "delete" /\ vars_exists(vars, last_op'.name)) =>
             /\ last_op'.ok
             /\ Keys(vars') = Without(Keys(vars), vars_find_index(vars, last_op'.name))
             /\ \A n \in StoreNames \ {last_op'.name} :
                  vars_exists(vars, n)
                      => ValueOf(vars', heap', n) = ValueOf(vars, heap, n)
      ]_vars_all
\* a, the first name set, has been set again while b, set after it from
\* the nested Array a held, is still second and still holds that Array
C36_Witness ==
    /\ last_op = [op |-> "set", name |-> "a", text |-> "1", ok |-> TRUE]
    /\ Keys(vars) = <<"a", "b">>
    /\ ValueOf(vars, heap, "a") = Num1
    /\ ValueOf(vars, heap, "b") = Nested

====
